---- MODULE Spec2Model ----
(***************************************************************************)
(* Model of image_filter.py: the single-image viewer with its look-ahead   *)
(* prefetcher (ImageFilterApp) and the thumbnail grid with its worker pool *)
(* (ThumbnailGridWindow).                                                  *)
(*                                                                         *)
(* Threads: the Tk main loop runs one handler at a time (mainPc says where *)
(* it is when a handler is interleaved with background threads); every     *)
(* _preload_next call is a thread of its own; thumbnail jobs run on the    *)
(* grid's ThreadPoolExecutor.  A `with lock:` block is one atomic step.    *)
(***************************************************************************)
EXTENDS Integers, Sequences, FiniteSets, TLC

(* ------------------------------ bounds -------------------------------- *)
\* number of images of the viewer specifications
NumImages == 5
\* number of images of the resize specification
ResizeImages == 3
\* _preload_next threads alive at the same time
MaxThreads == 2
\* pending _refit_image timers (toggle_fullscreen never cancels one)
MaxRefit == 1
\* number of images of the grid specification
GridImages == 13
\* grids opened in a run
MaxGrids == 2
\* thumbnail jobs submitted in a run
MaxJobs == 3
\* files of a folder whose grid has a single row
SmallGridImages == 4
\* how far from 100 per cent the user zooms
ZoomSpan == 21
\* files of the folder of the zoom specification
ZoomImages == 2
\* thumbnail jobs submitted in a run of the pool specification
PoolJobs == 24
\* how far from the centre the user drags the image
PanSpan == 60
\* files of the folder of the window specification
WindowImages == 6

(* ------------------------- program constants -------------------------- *)
\* _preload_next(self, count=3)
PreloadCount == 3
\* max(self.canvas.winfo_width(), 400)
MinCanvas == 400
\* abs(fw - expected_w) <= 2
FitTolerance == 2
\* min(self.zoom_level * 1.1, 20.0), max(self.zoom_level / 1.1, 0.1), per cent
MaxZoom == 2000
MinZoom == 10
\* ThumbnailGridWindow.CELL_W, CELL_H, COLUMNS, MAX_WORKERS
CELL_W == 140
CELL_H == 160
COLUMNS == 6
MAX_WORKERS == 8

(* ------------------------------ inputs -------------------------------- *)
\* winfo_width/winfo_height of the viewer canvas: 1x1 before the window is
\* mapped, then the sizes the window manager gives it
UnmappedCanvas == <<1, 1>>
CanvasSizes == {<<800, 600>>, <<1000, 600>>}

\* (width, height) of the decoded image of each file: square and 2:1 files
ImgSize(i) == IF i % 2 = 0 THEN <<300, 300>> ELSE <<400, 200>>

\* the sets of files that cannot be decoded that a run may start with
BadChoices == {{}, {2}}

\* winfo_height of the grid canvas: 1 before it is mapped, then the height
\* the user gives the window
UnmappedHeight == 1
GridHeights == {100}
\* the offsets the user scrolls the grid to
ScrollOffsets == {0, 380}
\* pointer positions of clicks in the grid
ClickXs == {150, 860}
ClickYs == {20}
\* the grid specification starts in a process in which earlier grids have
\* published the thumbnail of every file but these (a closed grid leaves
\* the cache with whatever its jobs had published)
ColdThumbs == {0}
GridBadChoices == {{}, {0}}

\* SpecIndex: pointer positions of clicks in the grid of a folder of one
\* row: in the left margin, on the last cell, and right of the last cell
IndexClickXs == {5, 430, 600}

\* SpecSave: what the destination folder holds when the program starts: a
\* name is <<i, 0>> for the basename of file i and <<i, c>> for the name
\* with "_c" before the extension
DestChoices == {{}, {<<0, 0>>}, {<<0, 0>>, <<0, 1>>, <<1, 0>>}}
\* the answers of the overwrite dialog
Answers == {"overwrite", "rename", "cancel"}

\* pointer positions of the drags on the viewer canvas
DragPoints == {<<100, 100>>, <<130, 80>>}

\* SpecGridView: heights of the grid canvas, offsets of the view, pointer
\* positions (one in the margin left of the first column), and the file
\* that has no thumbnail yet
ViewHeights == {100, 160}
ViewOffsets == {0, 320, 380}
ViewClickXs == {5, 150, 860}
ViewColdThumbs == {0, 12}

Max(a, b) == IF a >= b THEN a ELSE b
Min(a, b) == IF a <= b THEN a ELSE b
Abs(a) == IF a >= 0 THEN a ELSE 0 - a

VARIABLES
    nImages,            \* len(self.images)
    bad,                \* files on which Image.open / load raises
    index,              \* self.index
    canvas,             \* (winfo_width, winfo_height) of self.canvas
    preloadCache,       \* self._preload_cache: index -> (img, fitted)
    preloadCanvasSize,  \* self._preload_canvas_size
    currentPil,         \* self.current_pil_image: "ok" or "none"
    prerenderedFitted,  \* self._prerendered_fitted
    zoomLevel,          \* self.zoom_level, in per cent
    imageItem,          \* self._image_item is set
    phoneMode,          \* self.phone_mode
    display,            \* what the viewer canvas shows
    hqTimer,            \* self._hq_after_id and the tasks root.after holds for it
    resizeTimer,        \* self._resize_after_id and its tasks
    refitTimers,        \* pending root.after(50, self._refit_image) tasks
    mainPc,             \* where the Tk main loop is
    threads,            \* the _preload_next threads
    failedOnce,         \* history: files whose decode has failed at least once
    lastThread,         \* history: the thread started last
    refitDropped,       \* history: since the last load_image, a _refit_image
                        \* has dropped entries of the window
    thumbCache,         \* app._thumb_cache: index -> thumbnail (the job that made it)
    gridOpen,           \* a ThumbnailGridWindow is open
    gridGen,            \* how many grids have been opened; the open one is gridGen
    stopLoading,        \* per grid: self._stop_loading
    executor,           \* per grid: self._executor is set
    pendingIndices,     \* per grid: self._pending_indices
    jobs,               \* thumbnail jobs submitted and not yet finished
    nextJob,            \* jobs submitted so far
    callbacks,          \* win.after(0, self._update_thumb_on_canvas, ...) tasks
    drawnRows,          \* self._drawn_rows
    canvasItems,        \* self._canvas_items: index -> what its cell shows
    thumbPhotos,        \* keys of self._thumb_photos
    lastVisible,        \* self._last_visible
    scrollTimer,        \* self._scroll_after_id and its tasks
    initialScroll,      \* win.after(50, self._initial_scroll) is pending
    gridCanvasH,        \* winfo_height of the grid canvas
    yTop,               \* self.canvas.canvasy(0)
    loadLoop,           \* locals of _load_visible_thumbs while it runs
    fitCalc,            \* the fit computation applied to one image size and
                        \* one viewport: the operands and the results so far
    pan,                \* self.pan_x, self.pan_y (off), where the drawn image is
                        \* relative to the centre (item), self._drag_start (drag)
    lockOwner,          \* who holds self._preload_lock and self._thumb_cache_lock
    lockPc,             \* where each thread is with respect to the `with` blocks
    saveCount,          \* self.save_count
    savedSet,           \* self.saved_set
    destFiles,          \* the names that exist in self.dest_folder
    copies,             \* how many calls of shutil.copy2 have returned
    dialogResult        \* result["value"] of the latest _ask_overwrite

\* self._preload_lock and self._thumb_cache_lock (lines 137 and 142), and
\* the threads that take them: the Tk main loop, two _preload_next threads
\* and two workers of the thumbnail pool
Locks == {"preload", "thumb"}
LockProcs == {"main", "preload1", "preload2", "worker1", "worker2"}

\* the files of the run
fileVars == <<nImages, bad>>
\* the two cache locks
lockVars == <<lockOwner, lockPc>>
\* what on_save reads and writes
saveVars == <<saveCount, savedSet, destFiles, copies, dialogResult>>
\* the view state of the viewer, owned by the Tk main loop
uiVars == <<index, canvas, currentPil, prerenderedFitted, zoomLevel, imageItem,
            phoneMode, display, hqTimer, resizeTimer, refitTimers, refitDropped,
            pan>>
\* the prefetcher
prefetchVars == <<preloadCache, preloadCanvasSize, threads, lastThread>>
\* the view state of the grid, owned by the Tk main loop
gridViewVars == <<gridOpen, gridGen, drawnRows, canvasItems, thumbPhotos,
                  lastVisible, scrollTimer, initialScroll, gridCanvasH, yTop,
                  loadLoop>>
\* the thumbnail pool
poolVars == <<thumbCache, stopLoading, executor, pendingIndices, jobs, nextJob,
              callbacks>>
gridVars == <<gridViewVars, poolVars>>
vars == <<fileVars, saveVars, fitCalc, lockVars, uiVars, prefetchVars, failedOnce, mainPc, gridVars>>

(* --------------------------- pure helpers ----------------------------- *)
\* canvas_w = max(self.canvas.winfo_width(), 400), same for the height
EffCanvas(c) == <<Max(c[1], MinCanvas), Max(c[2], MinCanvas)>>

\* min(cw / w, ch / h) as the fraction <<numerator, denominator>>
Ratio(sz, cs) ==
    IF cs[1] * sz[2] <= cs[2] * sz[1] THEN <<cs[1], sz[1]>> ELSE <<cs[2], sz[2]>>

\* The ratio is a Python float, an IEEE-754 double. For these operands
\* <<x, n, d>>, among those the fit is applied to here, the product x * (n / d)
\* comes out just below the integer x*n/d; for the others nothing is lost.
FloatShort == {<<281, 600, 281>>, <<390, 400, 390>>, <<390, 800, 390>>}

\* int(x * ratio) with ratio = n / d: int() truncates, the operands are positive
IntOfProduct(x, n, d) ==
    IF <<x, n, d>> \in FloatShort THEN (x * n) \div d - 1 ELSE (x * n) \div d

\* show_image, lines 259-261: expected_ratio, expected_w, expected_h
FitSize(sz, cs) ==
    LET r == Ratio(sz, cs)
    IN <<Max(IntOfProduct(sz[1], r[1], r[2]), 1),
         Max(IntOfProduct(sz[2], r[1], r[2]), 1)>>

\* _preload_next, lines 201-203: ratio, fw, fh
PreloadFitSize(sz, cs) ==
    LET ratio == Ratio(sz, cs)
    IN <<Max(IntOfProduct(sz[1], ratio[1], ratio[2]), 1),
         Max(IntOfProduct(sz[2], ratio[1], ratio[2]), 1)>>

\* _render, lines 330-333: base_ratio, effective_ratio = base_ratio * zoom_level
\* (z per cent), new_w, new_h
RenderSize(sz, cs, z) ==
    LET base == Ratio(sz, cs)
    IN IF z = 100
       THEN <<Max(IntOfProduct(sz[1], base[1], base[2]), 1),
              Max(IntOfProduct(sz[2], base[1], base[2]), 1)>>
       ELSE <<Max((sz[1] * base[1] * z) \div (base[2] * 100), 1),
              Max((sz[2] * base[1] * z) \div (base[2] * 100), 1)>>

\* _load_image_from_disk: the image, or None when anything raises
LoadImageFromDisk(i) == IF i \in bad THEN "none" ELSE "ok"

\* self._preload_cache = {}
EmptyCache == [i \in {} |-> 0]

NoFit == [cs |-> <<0, 0>>, size |-> <<0, 0>>]
NoTimer == [id |-> FALSE, live |-> FALSE, n |-> 0]

\* indices = [self.index + i for i in range(1, count + 1) if self.index + i < len]
Indices(base) == {base + i : i \in {j \in 1..PreloadCount : base + j < nImages}}
IndicesLen(base) == Cardinality(Indices(base))

IdleThread == [pc |-> "idle", base |-> 0, k |-> 0, cs |-> <<0, 0>>, img |-> "none"]

(* ------------------------------ timers -------------------------------- *)
\* A debounce channel: `id` is the attribute holding the last after-id (it is
\* never reset), `live` says that the task it names has neither fired nor
\* been cancelled, `n` counts the tasks root.after still holds.
\* if self._x_after_id: after_cancel(self._x_after_id); self._x_after_id = after(...)
\* Schedule, except that the task already pending is not cancelled
ScheduleWithoutCancel(t) == [id |-> TRUE, live |-> TRUE, n |-> t.n + 1]

Schedule(t) ==
    [id |-> TRUE, live |-> TRUE,
     n |-> (IF t.id /\ t.live THEN t.n - 1 ELSE t.n) + 1]

\* Tk runs the oldest pending task first
FireTimer(t) ==
    IF t.n > 1 THEN [t EXCEPT !.n = @ - 1]
    ELSE [id |-> t.id, live |-> FALSE, n |-> 0]

(* ----------------------------- rendering ------------------------------ *)
\* self._drag_start = None
NoPoint == <<0 - 1, 0 - 1>>

\* self.pan_x = 0; self.pan_y = 0
PanZero(p) == [p EXCEPT !.off = <<0, 0>>]

\* cx = canvas_w // 2 + self.pan_x, cy likewise: a render puts the image at
\* the pan offset from the centre; _render_phone_mode without an image
\* returns before it draws
Placed(p, img, phone) ==
    IF phone /\ img = "none" THEN p ELSE [p EXCEPT !.item = p.off]

\* what the canvas shows: the kind of picture; for the pre-fitted picture
\* also its size, the canvas size it was made for (tag) and the canvas size
\* at the time it was put up (live)
Shown(kind) == [kind |-> kind, size |-> <<0, 0>>, live |-> <<0, 0>>, tag |-> <<0, 0>>]

\* _render: the "Cannot load image" text, or the image resampled now
Render(hq, img) ==
    IF img = "none"
    THEN [display |-> Shown("cannot"), imageItem |-> FALSE]
    ELSE [display |-> Shown(IF hq THEN "hq" ELSE "fast"), imageItem |-> TRUE]

\* _render_phone_mode: returns at once when there is no image
RenderPhoneMode(img, oldDisplay, oldItem) ==
    IF img = "none"
    THEN [display |-> oldDisplay, imageItem |-> oldItem]
    ELSE [display |-> Shown("phone"), imageItem |-> TRUE]

\* _render_from_fitted
RenderFromFitted(fit, cv) ==
    [display |-> [kind |-> "fitted", size |-> fit.size,
                  live |-> EffCanvas(cv), tag |-> fit.cs],
     imageItem |-> TRUE]

\* show_image as it would be without the comparison of sizes: any
\* pre-rendered image is put up
UseFittedAnySize(fit, z, img, idx, cv) ==
    /\ fit # NoFit
    /\ z = 100
    /\ img = "ok"

\* show_image, lines 253-265: the pre-rendered image is used when its size is
\* within 2 px of the fit computed for the canvas as it is now
UseFitted(fit, z, img, idx, cv) ==
    /\ fit # NoFit
    /\ z = 100
    /\ img = "ok"
    /\ LET e == FitSize(ImgSize(idx), EffCanvas(cv))
       IN /\ Abs(fit.size[1] - e[1]) <= FitTolerance
          /\ Abs(fit.size[2] - e[2]) <= FitTolerance

\* show_image, lines 267-273
ShowImage(img, fit, z, phone, idx, cv, oldDisplay, oldItem, hq) ==
    IF phone
    THEN RenderPhoneMode(img, oldDisplay, oldItem) @@ [hq |-> hq]
    ELSE IF UseFitted(fit, z, img, idx, cv)
    THEN RenderFromFitted(fit, cv) @@ [hq |-> hq]
    ELSE Render(FALSE, img) @@ [hq |-> Schedule(hq)]

\* render_image
RenderImage(img, z, phone, idx, cv, oldDisplay, oldItem, hq) ==
    IF phone
    THEN RenderPhoneMode(img, oldDisplay, oldItem) @@ [hq |-> hq]
    ELSE Render(FALSE, img) @@ [hq |-> Schedule(hq)]

(* ------------------------- prefetch threads --------------------------- *)
FreeSlots == {t \in 1..MaxThreads : threads[t].pc = "idle"}

\* threading.Thread(target=self._preload_next, daemon=True).start()
NewThread == CHOOSE s \in FreeSlots : \A o \in FreeSlots : s <= o
Spawn(ths) == [ths EXCEPT ![NewThread] = [IdleThread EXCEPT !.pc = "start"]]

\* the entry of index i is the (None, None) of a failed decode
HasFailure(i) == i \in DOMAIN preloadCache /\ preloadCache[i].img = "none"

\* the index the loop of thread t is at
ThreadIdx(t) == threads[t].base + threads[t].k

\* the next iteration of `for idx in indices`, or the end of the thread
Advance(th) ==
    IF th.k < IndicesLen(th.base)
    THEN [th EXCEPT !.pc = "check", !.k = @ + 1, !.img = "none"]
    ELSE IdleThread

\* lines 179-180: the list of indices, from self.index as it is now
PreloadIndices(t) ==
    /\ threads[t].pc = "start"
    /\ threads' = [threads EXCEPT ![t].pc = "purge", ![t].base = index]
    /\ UNCHANGED <<fileVars, saveVars, fitCalc, lockVars, uiVars, preloadCache, preloadCanvasSize, lastThread,
                   failedOnce, mainPc, gridVars>>

\* lines 182-186: under the lock, drop every entry outside indices and
\* self.index as it is now
PreloadPurge(t) ==
    /\ threads[t].pc = "purge"
    /\ LET keep == Indices(threads[t].base) \cup {index}
       IN preloadCache' = [i \in DOMAIN preloadCache \cap keep |-> preloadCache[i]]
    /\ threads' = [threads EXCEPT ![t].pc = "readcs"]
    /\ UNCHANGED <<fileVars, saveVars, fitCalc, lockVars, uiVars, preloadCanvasSize, lastThread, failedOnce,
                   mainPc, gridVars>>

\* line 189: canvas_size = self._preload_canvas_size, then the loop begins
PreloadReadSize(t) ==
    /\ threads[t].pc = "readcs"
    /\ threads' = [threads EXCEPT ![t] =
          IF IndicesLen(@.base) = 0 THEN IdleThread
          ELSE [@ EXCEPT !.pc = "check", !.k = 1, !.cs = preloadCanvasSize]]
    /\ UNCHANGED <<fileVars, saveVars, fitCalc, lockVars, uiVars, preloadCache, preloadCanvasSize, lastThread,
                   failedOnce, mainPc, gridVars>>

\* the test of lines 192-195 as it would be if a failure marker did not count
\* as an entry
PreloadCheckRetriesFailed(t) ==
    /\ threads[t].pc = "check"
    /\ threads' = [threads EXCEPT ![t] =
          IF ThreadIdx(t) \in DOMAIN preloadCache /\ ~HasFailure(ThreadIdx(t))
          THEN Advance(@)
          ELSE [@ EXCEPT !.pc = "decode"]]
    /\ UNCHANGED <<fileVars, saveVars, fitCalc, lockVars, uiVars, preloadCache, preloadCanvasSize, lastThread,
                   failedOnce, mainPc, gridVars>>

\* lines 192-195: under the lock, skip an index that has an entry; otherwise
\* the decode of its file begins
PreloadCheck(t) ==
    /\ threads[t].pc = "check"
    /\ threads' = [threads EXCEPT ![t] =
          IF ThreadIdx(t) \in DOMAIN preloadCache THEN Advance(@)
          ELSE [@ EXCEPT !.pc = "decode"]]
    /\ UNCHANGED <<fileVars, saveVars, fitCalc, lockVars, uiVars, preloadCache, preloadCanvasSize, lastThread,
                   failedOnce, mainPc, gridVars>>

\* PreloadDecode, except that a failed decode ends the pass
PreloadDecodeAbortsOnFailure(t) ==
    /\ threads[t].pc = "decode"
    /\ threads' = [threads EXCEPT ![t] =
          IF LoadImageFromDisk(ThreadIdx(t)) = "none" THEN IdleThread
          ELSE [@ EXCEPT !.pc = "publish", !.img = "ok"]]
    /\ failedOnce' = IF LoadImageFromDisk(ThreadIdx(t)) = "none"
                     THEN failedOnce \cup {ThreadIdx(t)} ELSE failedOnce
    /\ UNCHANGED <<fileVars, saveVars, fitCalc, lockVars, uiVars, preloadCache, preloadCanvasSize, lastThread,
                   mainPc, gridVars>>

\* line 196: _load_image_from_disk returns
PreloadDecode(t) ==
    /\ threads[t].pc = "decode"
    /\ threads' = [threads EXCEPT ![t].pc = "publish",
                                  ![t].img = LoadImageFromDisk(ThreadIdx(t))]
    /\ failedOnce' = IF LoadImageFromDisk(ThreadIdx(t)) = "none"
                     THEN failedOnce \cup {ThreadIdx(t)} ELSE failedOnce
    /\ UNCHANGED <<fileVars, saveVars, fitCalc, lockVars, uiVars, preloadCache, preloadCanvasSize, lastThread,
                   mainPc, gridVars>>

\* lines 198-204: fitted, for the canvas size the thread read at its start
PreloadFitted(th, idx) ==
    IF th.img = "ok"
    THEN [cs |-> th.cs, size |-> PreloadFitSize(ImgSize(idx), th.cs)]
    ELSE NoFit

\* lines 205-206: under the lock, self._preload_cache[idx] = (img, fitted)
PreloadPublish(t) ==
    /\ threads[t].pc = "publish"
    /\ preloadCache' =
          [i \in DOMAIN preloadCache \cup {ThreadIdx(t)} |->
              IF i = ThreadIdx(t)
              THEN [img |-> threads[t].img,
                    fitted |-> PreloadFitted(threads[t], ThreadIdx(t))]
              ELSE preloadCache[i]]
    /\ threads' = [threads EXCEPT ![t] = Advance(@)]
    /\ UNCHANGED <<fileVars, saveVars, fitCalc, lockVars, uiVars, preloadCanvasSize, lastThread, failedOnce,
                   mainPc, gridVars>>

(* ------------------------ viewer: main loop --------------------------- *)
\* load_image from line 232 on, then the rest of show_image(load=True): img
\* and fitted are what the cache or the disk gave for self.index
FinishLoad(i, img, fit) ==
    LET r == ShowImage(img, fit, 100, phoneMode, i, canvas,
                       Shown("blank"), FALSE, hqTimer)
    IN /\ currentPil' = img
       /\ prerenderedFitted' = fit
       /\ preloadCanvasSize' = EffCanvas(canvas)
       /\ threads' = Spawn(threads)
       /\ lastThread' = NewThread
       /\ zoomLevel' = 100
       /\ display' = r.display
       /\ imageItem' = r.imageItem
       /\ hqTimer' = r.hq
       /\ mainPc' = "idle"

\* load_image as it would be if it did not look into the prefetch window:
\* the main loop decodes every file it shows
LoadAndShowNoCache(i) ==
    /\ FreeSlots # {}
    /\ index' = i
    /\ refitDropped' = FALSE
    /\ pan' = Placed(PanZero(pan), "ok", FALSE)
    /\ UNCHANGED <<fileVars, saveVars, fitCalc, lockVars, canvas, phoneMode, resizeTimer, refitTimers>>
    /\ mainPc' = "decoding"
    /\ currentPil' = "none"
    /\ prerenderedFitted' = NoFit
    /\ zoomLevel' = 100
    /\ imageItem' = FALSE
    /\ display' = Shown("blank")
    /\ UNCHANGED <<preloadCache, preloadCanvasSize, threads, lastThread,
                   hqTimer, failedOnce>>

\* show_image(load=True) with self.index = i: load_image resets the view and
\* pops the entry of i; without one the main loop decodes the file itself
LoadAndShow(i) ==
    /\ FreeSlots # {}
    /\ index' = i
    /\ refitDropped' = FALSE
    /\ pan' = Placed(PanZero(pan), "ok", FALSE)
    /\ UNCHANGED <<fileVars, saveVars, fitCalc, lockVars, canvas, phoneMode, resizeTimer, refitTimers>>
    /\ IF i \in DOMAIN preloadCache
       THEN /\ preloadCache' = [j \in DOMAIN preloadCache \ {i} |-> preloadCache[j]]
            /\ FinishLoad(i, preloadCache[i].img, preloadCache[i].fitted)
            /\ UNCHANGED failedOnce
       ELSE /\ mainPc' = "decoding"
            /\ currentPil' = "none"
            /\ prerenderedFitted' = NoFit
            /\ zoomLevel' = 100
            /\ imageItem' = FALSE
            /\ display' = Shown("blank")
            /\ UNCHANGED <<preloadCache, preloadCanvasSize, threads, lastThread,
                           hqTimer, failedOnce>>

\* load_image, line 229: _load_image_from_disk returns on the main loop
MainDecodeDone ==
    /\ mainPc = "decoding"
    /\ FinishLoad(index, LoadImageFromDisk(index), NoFit)
    /\ failedOnce' = IF LoadImageFromDisk(index) = "none"
                     THEN failedOnce \cup {index} ELSE failedOnce
    /\ UNCHANGED <<fileVars, saveVars, fitCalc, lockVars, index, canvas, phoneMode, resizeTimer, refitTimers,
                   refitDropped, pan, preloadCache, gridVars>>

\* on_next
OnNext ==
    /\ mainPc = "idle"
    /\ ~gridOpen
    /\ index < nImages - 1
    /\ LoadAndShow(index + 1)
    /\ UNCHANGED gridVars

(* -------------------------------- save -------------------------------- *)
\* lines 796-801: the first name_counter.ext that does not exist
NewDest(i) ==
    <<i, CHOOSE c \in 1..(Cardinality(destFiles) + 1) :
            /\ <<i, c>> \notin destFiles
            /\ \A d \in 1..(c - 1) : <<i, d>> \in destFiles>>

\* lines 809-811: shutil.copy2 returns and the save is counted, or it raises
\* and the handler ends there
CopyTo(dest) ==
    \/ /\ destFiles' = destFiles \cup {dest}
       /\ copies' = copies + 1
       /\ saveCount' = saveCount + 1
       /\ savedSet' = savedSet \cup {index}
    \/ UNCHANGED <<destFiles, copies, saveCount, savedSet>>

\* the steps of on_save and its dialog leave everything but saveVars and
\* the position of the main loop alone
SaveFrame ==
    UNCHANGED <<fileVars, fitCalc, lockVars, uiVars, prefetchVars, failedOnce, gridVars>>

\* on_save as it would be without the test of lines 790-791
OnSaveAgain ==
    /\ mainPc = "idle"
    /\ ~gridOpen
    /\ IF <<index, 0>> \in destFiles
       THEN /\ mainPc' = "dialog"
            /\ dialogResult' = "cancel"
            /\ UNCHANGED <<destFiles, copies, saveCount, savedSet>>
       ELSE /\ CopyTo(<<index, 0>>)
            /\ UNCHANGED <<mainPc, dialogResult>>
    /\ SaveFrame

\* on_save up to the dialog: nothing for an image that is saved already;
\* the copy when the name is free; otherwise _ask_overwrite opens its modal
\* dialog and waits
OnSave ==
    /\ mainPc = "idle"
    /\ ~gridOpen
    /\ IF index \in savedSet
       THEN UNCHANGED <<saveVars, mainPc>>
       ELSE IF <<index, 0>> \in destFiles
            THEN /\ mainPc' = "dialog"
                 /\ dialogResult' = "cancel"
                 /\ UNCHANGED <<destFiles, copies, saveCount, savedSet>>
            ELSE /\ CopyTo(<<index, 0>>)
                 /\ UNCHANGED <<mainPc, dialogResult>>
    /\ SaveFrame

\* a button of the dialog, or its close box: _ask_overwrite returns the
\* answer and on_save goes on from line 803
AskOverwrite(answer) ==
    /\ mainPc = "dialog"
    /\ mainPc' = "idle"
    /\ dialogResult' = answer
    /\ IF answer = "cancel"
       THEN UNCHANGED <<destFiles, copies, saveCount, savedSet>>
       ELSE CopyTo(IF answer = "rename" THEN NewDest(index) ELSE <<index, 0>>)
    /\ SaveFrame

\* on_prev as it would be without the test of lines 733-734
OnPrevNoFirstTest ==
    /\ mainPc = "idle"
    /\ ~gridOpen
    /\ LoadAndShow(index - 1)
    /\ UNCHANGED gridVars

\* on_prev
OnPrev ==
    /\ mainPc = "idle"
    /\ ~gridOpen
    /\ index > 0
    /\ LoadAndShow(index - 1)
    /\ UNCHANGED gridVars

\* the <Configure> event of the root window: the canvas has the size sz now;
\* on_resize restarts the 100 ms timer
OnResize(sz) ==
    /\ mainPc = "idle"
    /\ sz # canvas
    /\ canvas' = sz
    /\ resizeTimer' = Schedule(resizeTimer)
    /\ UNCHANGED <<fileVars, saveVars, fitCalc, lockVars, index, currentPil, prerenderedFitted, zoomLevel,
                   imageItem, phoneMode, display, hqTimer, refitTimers, refitDropped,
                   pan, prefetchVars, failedOnce, mainPc, gridVars>>

\* the task of on_resize runs: render_image()
ResizeFire ==
    /\ mainPc = "idle"
    /\ resizeTimer.n > 0
    /\ resizeTimer' = FireTimer(resizeTimer)
    /\ LET r == RenderImage(currentPil, zoomLevel, phoneMode, index, canvas,
                            display, imageItem, hqTimer)
       IN /\ display' = r.display
          /\ imageItem' = r.imageItem
          /\ hqTimer' = r.hq
    /\ pan' = Placed(pan, currentPil, phoneMode)
    /\ UNCHANGED <<fileVars, saveVars, fitCalc, lockVars, index, canvas, currentPil, prerenderedFitted,
                   zoomLevel, phoneMode, refitTimers, refitDropped, prefetchVars,
                   failedOnce, mainPc, gridVars>>

\* the task of _schedule_hq_render runs: _render(high_quality=True)
HqFire ==
    /\ mainPc = "idle"
    /\ hqTimer.n > 0
    /\ hqTimer' = FireTimer(hqTimer)
    /\ LET r == Render(TRUE, currentPil)
       IN /\ display' = r.display
          /\ imageItem' = r.imageItem
    /\ pan' = Placed(pan, currentPil, FALSE)
    /\ UNCHANGED <<fileVars, saveVars, fitCalc, lockVars, index, canvas, currentPil, prerenderedFitted,
                   zoomLevel, phoneMode, resizeTimer, refitTimers, refitDropped,
                   prefetchVars, failedOnce, mainPc, gridVars>>

\* toggle_fullscreen: root.after(50, self._refit_image); the new size of the
\* canvas arrives as <Configure> events
ToggleFullscreen ==
    /\ mainPc = "idle"
    /\ ~gridOpen
    /\ refitTimers < MaxRefit
    /\ refitTimers' = refitTimers + 1
    /\ UNCHANGED <<fileVars, saveVars, fitCalc, lockVars, index, canvas, currentPil, prerenderedFitted,
                   zoomLevel, imageItem, phoneMode, display, hqTimer,
                   resizeTimer, refitDropped, pan, prefetchVars, failedOnce, mainPc,
                   gridVars>>

\* _refit_image as it would be if it dropped only the fitted images and
\* kept the decoded ones
RefitImageKeepsDecoded ==
    /\ mainPc = "idle"
    /\ refitTimers > 0
    /\ refitTimers' = refitTimers - 1
    /\ IF currentPil = "none"
       THEN UNCHANGED <<imageItem, display, prefetchVars, refitDropped, pan>>
       ELSE /\ FreeSlots # {}
            /\ pan' = Placed(PanZero(pan), currentPil, phoneMode)
            /\ refitDropped' = (refitDropped \/ preloadCache # EmptyCache)
            /\ preloadCache' = [i \in DOMAIN preloadCache |->
                                  [preloadCache[i] EXCEPT !.fitted = NoFit]]
            /\ preloadCanvasSize' = EffCanvas(canvas)
            /\ LET r == IF phoneMode
                        THEN RenderPhoneMode(currentPil, Shown("blank"), FALSE)
                        ELSE Render(TRUE, currentPil)
               IN /\ display' = r.display
                  /\ imageItem' = r.imageItem
            /\ threads' = Spawn(threads)
            /\ lastThread' = NewThread
    /\ UNCHANGED <<fileVars, saveVars, fitCalc, lockVars, index, canvas, currentPil, prerenderedFitted,
                   zoomLevel, phoneMode, hqTimer, resizeTimer, failedOnce,
                   mainPc, gridVars>>

\* _refit_image
RefitImage ==
    /\ mainPc = "idle"
    /\ refitTimers > 0
    /\ refitTimers' = refitTimers - 1
    /\ IF currentPil = "none"
       THEN UNCHANGED <<imageItem, display, prefetchVars, refitDropped, pan>>
       ELSE /\ FreeSlots # {}
            /\ pan' = Placed(PanZero(pan), currentPil, phoneMode)
            /\ refitDropped' = (refitDropped \/ preloadCache # EmptyCache)
            /\ preloadCache' = EmptyCache
            /\ preloadCanvasSize' = EffCanvas(canvas)
            /\ LET r == IF phoneMode
                        THEN RenderPhoneMode(currentPil, Shown("blank"), FALSE)
                        ELSE Render(TRUE, currentPil)
               IN /\ display' = r.display
                  /\ imageItem' = r.imageItem
            /\ threads' = Spawn(threads)
            /\ lastThread' = NewThread
    /\ UNCHANGED <<fileVars, saveVars, fitCalc, lockVars, index, canvas, currentPil, prerenderedFitted,
                   zoomLevel, phoneMode, hqTimer, resizeTimer, failedOnce,
                   mainPc, gridVars>>

\* zoom_level * 1.1 and zoom_level / 1.1, within [0.1, 20.0]; the level is kept
\* to the nearest per cent
ZoomIn(z) == Min((z * 11 + 5) \div 10, MaxZoom)

\* the zoom-out step as it would be without the lower limit
ZoomOutWithoutFloor(z) == (z * 10 + 5) \div 11

ZoomOut(z) == Max((z * 10 + 5) \div 11, MinZoom)

\* on_mouse_wheel: nothing without an image; otherwise one zoom step and
\* render_image(); the user keeps the level within span of 100 per cent
OnMouseWheelWithin(up, span) ==
    /\ mainPc = "idle"
    /\ ~gridOpen
    /\ IF currentPil = "none"
       THEN UNCHANGED <<zoomLevel, display, imageItem, hqTimer, pan>>
       ELSE LET z == IF up THEN ZoomIn(zoomLevel) ELSE ZoomOut(zoomLevel)
                r == RenderImage(currentPil, z, phoneMode, index, canvas,
                                 display, imageItem, hqTimer)
            IN /\ Abs(z - 100) <= span
               /\ zoomLevel' = z
               /\ display' = r.display
               /\ imageItem' = r.imageItem
               /\ hqTimer' = r.hq
               /\ pan' = Placed(pan, currentPil, phoneMode)
    /\ UNCHANGED <<fileVars, saveVars, fitCalc, lockVars, index, canvas, currentPil, prerenderedFitted,
                   phoneMode, resizeTimer, refitTimers, refitDropped,
                   prefetchVars, failedOnce, mainPc, gridVars>>

OnMouseWheel(up) == OnMouseWheelWithin(up, ZoomSpan)

\* reset_zoom (double click, middle click): zoom 1.0, pan 0, render_image()
ResetZoom ==
    /\ mainPc = "idle"
    /\ ~gridOpen
    /\ zoomLevel' = 100
    /\ pan' = Placed(PanZero(pan), currentPil, phoneMode)
    /\ LET r == RenderImage(currentPil, 100, phoneMode, index, canvas,
                            display, imageItem, hqTimer)
       IN /\ display' = r.display
          /\ imageItem' = r.imageItem
          /\ hqTimer' = r.hq
    /\ UNCHANGED <<fileVars, saveVars, fitCalc, lockVars, index, canvas, currentPil, prerenderedFitted,
                   phoneMode, resizeTimer, refitTimers, refitDropped,
                   prefetchVars, failedOnce, mainPc, gridVars>>

\* toggle_phone_mode: the flag, the zoom reset when the mode is entered,
\* show_image(load=False)
TogglePhoneMode ==
    /\ mainPc = "idle"
    /\ ~gridOpen
    /\ phoneMode' = ~phoneMode
    /\ LET z == IF phoneMode THEN zoomLevel ELSE 100
           r == ShowImage(currentPil, prerenderedFitted, z, ~phoneMode, index,
                          canvas, display, imageItem, hqTimer)
       IN /\ zoomLevel' = z
          /\ display' = r.display
          /\ imageItem' = r.imageItem
          /\ hqTimer' = r.hq
    /\ pan' = Placed(IF phoneMode THEN pan ELSE PanZero(pan), currentPil, ~phoneMode)
    /\ UNCHANGED <<fileVars, saveVars, fitCalc, lockVars, index, canvas, currentPil, prerenderedFitted,
                   resizeTimer, refitTimers, refitDropped, prefetchVars,
                   failedOnce, mainPc, gridVars>>

\* on_drag_start (<ButtonPress-1> on the canvas, at pt)
OnDragStart(pt) ==
    /\ mainPc = "idle"
    /\ ~gridOpen
    /\ pan' = [pan EXCEPT !.drag = pt]
    /\ UNCHANGED <<fileVars, saveVars, fitCalc, lockVars, index, canvas, currentPil, prerenderedFitted,
                   zoomLevel, imageItem, phoneMode, display, hqTimer, resizeTimer,
                   refitTimers, refitDropped, prefetchVars, failedOnce, mainPc,
                   gridVars>>

\* on_drag_move as it would be if it called render_image() after every
\* motion instead of moving the canvas item
OnDragMoveRenders(pt, span) ==
    /\ mainPc = "idle"
    /\ ~gridOpen
    /\ IF pan.drag = NoPoint \/ ~imageItem
       THEN UNCHANGED <<pan, display, imageItem, hqTimer>>
       ELSE LET dx == pt[1] - pan.drag[1]
                dy == pt[2] - pan.drag[2]
                r == RenderImage(currentPil, zoomLevel, phoneMode, index, canvas,
                                 display, imageItem, hqTimer)
            IN /\ Abs(pan.off[1] + dx) <= span
               /\ Abs(pan.off[2] + dy) <= span
               /\ display' = r.display
               /\ imageItem' = r.imageItem
               /\ hqTimer' = r.hq
               /\ pan' = Placed([pan EXCEPT !.drag = pt,
                                            !.off = <<@[1] + dx, @[2] + dy>>],
                                currentPil, phoneMode)
    /\ UNCHANGED <<fileVars, saveVars, fitCalc, lockVars, index, canvas, currentPil, prerenderedFitted,
                   zoomLevel, phoneMode, resizeTimer, refitTimers,
                   refitDropped, prefetchVars, failedOnce, mainPc, gridVars>>

\* on_drag_move (<B1-Motion>, the pointer at pt): nothing without a drag
\* start or an image item; otherwise the pan offset moves with the pointer,
\* and the image item is moved (canvas.move) or, in phone mode, the mockup
\* is composed again; the user keeps the offset within span
OnDragMove(pt, span) ==
    /\ mainPc = "idle"
    /\ ~gridOpen
    /\ IF pan.drag = NoPoint \/ ~imageItem
       THEN UNCHANGED <<pan, display, imageItem>>
       ELSE LET dx == pt[1] - pan.drag[1]
                dy == pt[2] - pan.drag[2]
                r == RenderPhoneMode(currentPil, display, imageItem)
            IN /\ Abs(pan.off[1] + dx) <= span
               /\ Abs(pan.off[2] + dy) <= span
               /\ display' = IF phoneMode THEN r.display ELSE display
               /\ imageItem' = IF phoneMode THEN r.imageItem ELSE imageItem
               /\ pan' = IF phoneMode
                         THEN Placed([pan EXCEPT !.drag = pt,
                                                 !.off = <<@[1] + dx, @[2] + dy>>],
                                     currentPil, TRUE)
                         ELSE [pan EXCEPT !.drag = pt,
                                          !.off = <<@[1] + dx, @[2] + dy>>,
                                          !.item = <<@[1] + dx, @[2] + dy>>]
    /\ UNCHANGED <<fileVars, saveVars, fitCalc, lockVars, index, canvas, currentPil, prerenderedFitted,
                   zoomLevel, phoneMode, hqTimer, resizeTimer, refitTimers,
                   refitDropped, prefetchVars, failedOnce, mainPc, gridVars>>

(* ------------------------- the fit on its own ------------------------- *)
\* image sizes and viewports the fit is applied to; a viewport is a canvas
\* size after max(..., 400)
FitWidths == {200, 300, 390, 400, 1000}
FitHeights == {200, 281, 300, 667}
FitViews == {<<400, 400>>, <<800, 600>>, <<1000, 600>>}
NoSize == <<0, 0>>
NoCalc == [img |-> NoSize, view |-> NoSize, pre |-> NoSize, exp |-> NoSize,
           ren |-> NoSize, again |-> NoSize]

\* the prefetcher's fit of the image
ApplyPreloadFit ==
    /\ fitCalc.img # NoSize
    /\ fitCalc.pre = NoSize
    /\ fitCalc' = [fitCalc EXCEPT !.pre = PreloadFitSize(fitCalc.img, fitCalc.view)]
    /\ UNCHANGED <<fileVars, saveVars, lockVars, uiVars, prefetchVars, failedOnce, mainPc, gridVars>>

\* the fit show_image expects of the pre-rendered image
ApplyExpectedFit ==
    /\ fitCalc.img # NoSize
    /\ fitCalc.exp = NoSize
    /\ fitCalc' = [fitCalc EXCEPT !.exp = FitSize(fitCalc.img, fitCalc.view)]
    /\ UNCHANGED <<fileVars, saveVars, lockVars, uiVars, prefetchVars, failedOnce, mainPc, gridVars>>

\* the size _render gives the image at zoom 1.0
ApplyRenderFit ==
    /\ fitCalc.img # NoSize
    /\ fitCalc.ren = NoSize
    /\ fitCalc' = [fitCalc EXCEPT !.ren = RenderSize(fitCalc.img, fitCalc.view, 100)]
    /\ UNCHANGED <<fileVars, saveVars, lockVars, uiVars, prefetchVars, failedOnce, mainPc, gridVars>>

\* the fit applied to the size the prefetcher's fit gave, same viewport
ApplyFitAgain ==
    /\ fitCalc.pre # NoSize
    /\ fitCalc.again = NoSize
    /\ fitCalc' = [fitCalc EXCEPT !.again = PreloadFitSize(fitCalc.pre, fitCalc.view)]
    /\ UNCHANGED <<fileVars, saveVars, lockVars, uiVars, prefetchVars, failedOnce, mainPc, gridVars>>

(* --------------------------- initial state ---------------------------- *)
\* ImageFilterApp.__init__ has run: show_image() decoded file 0 on the main
\* loop (the cache was empty), the canvas is not mapped yet, so the first
\* _preload_canvas_size is (400, 400), the first _preload_next thread is
\* started and the first _render has scheduled its high-quality render
ViewerInit ==
    /\ index = 0
    /\ canvas = UnmappedCanvas
    /\ preloadCache = EmptyCache
    /\ preloadCanvasSize = EffCanvas(UnmappedCanvas)
    /\ currentPil = LoadImageFromDisk(0)
    /\ prerenderedFitted = NoFit
    /\ zoomLevel = 100
    /\ phoneMode = FALSE
    /\ display = Render(FALSE, LoadImageFromDisk(0)).display
    /\ imageItem = Render(FALSE, LoadImageFromDisk(0)).imageItem
    /\ hqTimer = Schedule(NoTimer)
    /\ resizeTimer = NoTimer
    /\ refitTimers = 0
    /\ refitDropped = FALSE
    /\ mainPc = "idle"
    /\ threads = [t \in 1..MaxThreads |->
                    IF t = 1 THEN [IdleThread EXCEPT !.pc = "start"] ELSE IdleThread]
    /\ lastThread = 1
    /\ failedOnce = {0} \cap bad
    /\ pan = [off |-> <<0, 0>>, item |-> <<0, 0>>, drag |-> NoPoint]
    /\ lockOwner = [l \in Locks |-> "free"]
    /\ lockPc = [p \in LockProcs |-> "idle"]
    /\ saveCount = 0
    /\ savedSet = {}
    /\ copies = 0
    /\ dialogResult = "cancel"

\* no grid has been opened
GridInit ==
    /\ gridOpen = FALSE
    /\ gridGen = 0
    /\ stopLoading = <<>>
    /\ executor = <<>>
    /\ pendingIndices = <<>>
    /\ jobs = {}
    /\ nextJob = 0
    /\ callbacks = {}
    /\ drawnRows = {}
    /\ canvasItems = EmptyCache
    /\ thumbPhotos = {}
    /\ lastVisible = <<0, 0>>
    /\ scrollTimer = NoTimer
    /\ initialScroll = FALSE
    /\ gridCanvasH = UnmappedHeight
    /\ yTop = 0
    /\ loadLoop = [i |-> 0, last |-> 0, toLoad |-> {}]

(* ------------------------------- grid --------------------------------- *)
\* int(x / d) for a float quotient: truncation toward zero
TruncDiv(x, d) == IF x >= 0 THEN x \div d ELSE 0 - ((0 - x) \div d)

\* self.total_rows = (self.total + self.COLUMNS - 1) // self.COLUMNS
TotalRows == (nImages + COLUMNS - 1) \div COLUMNS
TotalHeight == TotalRows * CELL_H

\* the canvas keeps its view inside the scroll region
ClampTop(y, h) == Max(0, Min(y, TotalHeight - h))

\* _get_visible_range
GetVisibleRange(y, h) ==
    IF h <= 1 THEN <<0, 0>>
    ELSE <<Max(0, TruncDiv(y, CELL_H) - 1),
           Min(TotalRows - 1, TruncDiv(y + h, CELL_H) + 1)>>

\* the indices of the cells _draw_row draws for a row
RowCells(row) == {i \in (row * COLUMNS)..(row * COLUMNS + COLUMNS - 1) : i < nImages}
CellsOf(rows) == UNION {RowCells(r) : r \in rows}

\* _load_single_thumb: the thumbnail, or None when anything raises
LoadSingleThumb(i) == IF i \in bad THEN "none" ELSE "ok"

\* the grid that is open
G == gridGen

\* open_grid: ThumbnailGridWindow.__init__
OpenGrid ==
    /\ mainPc = "idle"
    /\ ~gridOpen
    /\ gridGen < MaxGrids
    /\ gridOpen' = TRUE
    /\ gridGen' = gridGen + 1
    /\ thumbPhotos' = {}
    /\ drawnRows' = {}
    /\ canvasItems' = EmptyCache
    /\ stopLoading' = Append(stopLoading, FALSE)
    /\ executor' = Append(executor, FALSE)
    /\ pendingIndices' = Append(pendingIndices, {})
    /\ scrollTimer' = NoTimer
    /\ lastVisible' = <<0, 0>>
    /\ initialScroll' = TRUE
    /\ gridCanvasH' = UnmappedHeight
    /\ yTop' = 0
    /\ UNCHANGED <<fileVars, saveVars, fitCalc, lockVars, uiVars, prefetchVars, failedOnce, mainPc, loadLoop,
                   thumbCache, jobs, nextJob, callbacks>>

\* _on_scroll with the view at y and the canvas h high: nothing when the
\* visible range is the one drawn last; otherwise rows out of range are
\* removed, rows new in range are drawn from the cache, and
\* _load_visible_thumbs begins its loop
OnScroll(y, h) ==
    LET vr == GetVisibleRange(y, h)
        rows == vr[1]..vr[2]
        kept == CellsOf(drawnRows \cap rows) \cap DOMAIN canvasItems
        new == CellsOf(rows \ drawnRows)
    IN IF vr = lastVisible
       THEN UNCHANGED <<lastVisible, drawnRows, canvasItems, thumbPhotos,
                        loadLoop, mainPc>>
       ELSE /\ lastVisible' = vr
            /\ drawnRows' = rows
            /\ canvasItems' =
                  [i \in kept \cup new |->
                      IF i \in new
                      THEN (IF i \in DOMAIN thumbCache THEN "image" ELSE "text")
                      ELSE canvasItems[i]]
            /\ thumbPhotos' = (thumbPhotos \cap kept)
                                 \cup (new \cap DOMAIN thumbCache)
            /\ loadLoop' = [i |-> Max(0, vr[1] * COLUMNS),
                            last |-> Min(nImages, (vr[2] + 1) * COLUMNS),
                            toLoad |-> {}]
            /\ mainPc' = "loadCache"

\* the <Configure> event of the grid canvas: it is h high now
GridConfigure(h) ==
    /\ mainPc = "idle"
    /\ gridOpen
    /\ h # gridCanvasH
    /\ gridCanvasH' = h
    /\ yTop' = ClampTop(yTop, h)
    /\ OnScroll(ClampTop(yTop, h), h)
    /\ UNCHANGED <<fileVars, saveVars, fitCalc, lockVars, uiVars, prefetchVars, failedOnce, gridOpen, gridGen,
                   scrollTimer, initialScroll, poolVars>>

\* _initial_scroll: the view moves to the row above the current image
InitialScroll ==
    /\ mainPc = "idle"
    /\ gridOpen
    /\ initialScroll
    /\ initialScroll' = FALSE
    /\ LET y == ClampTop(Max(0, (index \div COLUMNS - 1) * CELL_H), gridCanvasH)
       IN /\ yTop' = y
          /\ OnScroll(y, gridCanvasH)
    /\ UNCHANGED <<fileVars, saveVars, fitCalc, lockVars, uiVars, prefetchVars, failedOnce, gridOpen, gridGen,
                   scrollTimer, gridCanvasH, poolVars>>

\* _on_mousewheel: the view moves to y, _schedule_scroll restarts the timer
OnMousewheel(y) ==
    /\ mainPc = "idle"
    /\ gridOpen
    /\ y = ClampTop(y, gridCanvasH)
    /\ y # yTop
    /\ yTop' = y
    /\ scrollTimer' = Schedule(scrollTimer)
    /\ UNCHANGED <<fileVars, saveVars, fitCalc, lockVars, uiVars, prefetchVars, failedOnce, mainPc, gridOpen,
                   gridGen, drawnRows, canvasItems, thumbPhotos, lastVisible,
                   initialScroll, gridCanvasH, loadLoop, poolVars>>

\* the task of _schedule_scroll runs: _on_scroll()
ScrollFire ==
    /\ mainPc = "idle"
    /\ gridOpen
    /\ scrollTimer.n > 0
    /\ scrollTimer' = FireTimer(scrollTimer)
    /\ OnScroll(yTop, gridCanvasH)
    /\ UNCHANGED <<fileVars, saveVars, fitCalc, lockVars, uiVars, prefetchVars, failedOnce, gridOpen, gridGen,
                   initialScroll, gridCanvasH, yTop, poolVars>>

\* the position of the loop of _load_visible_thumbs after the test of one
\* index: the thumbnail cache only ever gains entries, so the iterations over
\* indices that are in it already (lines 1013-1015, "continue") have the same
\* outcome whenever they run, and are taken together with the step before
\* them; the loop stops at the next index that is not in the cache, or ends
NextUncached(from) ==
    LET rest == {i \in from..(loadLoop.last - 1) : i \notin DOMAIN thumbCache}
    IN IF rest = {} THEN loadLoop.last
       ELSE CHOOSE i \in rest : \A o \in rest : i <= o

\* lines 1013-1015: under the lock, the index the loop is at is not in the
\* thumbnail cache (or no index is left)
LoadCheckCache ==
    /\ mainPc = "loadCache"
    /\ loadLoop' = [loadLoop EXCEPT !.i = NextUncached(loadLoop.i)]
    /\ mainPc' = IF NextUncached(loadLoop.i) < loadLoop.last
                 THEN "loadPending" ELSE "loadSubmit"
    /\ UNCHANGED <<fileVars, saveVars, fitCalc, lockVars, uiVars, prefetchVars, failedOnce, gridOpen, gridGen,
                   drawnRows, canvasItems, thumbPhotos, lastVisible, scrollTimer,
                   initialScroll, gridCanvasH, yTop, poolVars>>

\* lines 1016-1017: the index goes to to_load unless it is pending
LoadCheckPending ==
    /\ mainPc = "loadPending"
    /\ loadLoop' = [loadLoop EXCEPT
                       !.i = @ + 1,
                       !.toLoad = IF loadLoop.i \in pendingIndices[G]
                                  THEN @ ELSE @ \cup {loadLoop.i}]
    /\ mainPc' = "loadCache"
    /\ UNCHANGED <<fileVars, saveVars, fitCalc, lockVars, uiVars, prefetchVars, failedOnce, gridOpen, gridGen,
                   drawnRows, canvasItems, thumbPhotos, lastVisible, scrollTimer,
                   initialScroll, gridCanvasH, yTop, poolVars>>

\* the job ids of the indices submitted, in index order
JobId(i, set) == nextJob + Cardinality({j \in set : j <= i})

\* lines 1019-1028: every index of to_load becomes pending and is submitted;
\* a run submits at most max jobs
LoadSubmitWithin(max) ==
    /\ mainPc = "loadSubmit"
    /\ nextJob + Cardinality(loadLoop.toLoad) <= max
    /\ mainPc' = "idle"
    /\ loadLoop' = [i |-> 0, last |-> 0, toLoad |-> {}]
    /\ IF loadLoop.toLoad = {}
       THEN UNCHANGED <<executor, pendingIndices, jobs, nextJob>>
       ELSE /\ executor' = [executor EXCEPT ![G] = TRUE]
            /\ pendingIndices' = [pendingIndices EXCEPT ![G] = @ \cup loadLoop.toLoad]
            /\ jobs' = jobs \cup {[id |-> JobId(i, loadLoop.toLoad), idx |-> i,
                                   gen |-> G, pc |-> "queued"] : i \in loadLoop.toLoad}
            /\ nextJob' = nextJob + Cardinality(loadLoop.toLoad)
    /\ UNCHANGED <<fileVars, saveVars, fitCalc, lockVars, uiVars, prefetchVars, failedOnce, gridOpen, gridGen,
                   drawnRows, canvasItems, thumbPhotos, lastVisible, scrollTimer,
                   initialScroll, gridCanvasH, yTop, thumbCache, stopLoading,
                   callbacks>>

LoadSubmit == LoadSubmitWithin(MaxJobs)

\* a job after one step of its worker
Moved(j, pc) == (jobs \ {j}) \cup {[j EXCEPT !.pc = pc]}

\* a worker of the job's executor is free and takes the job from the queue
JobStart(j) ==
    /\ j.pc = "queued"
    /\ Cardinality({o \in jobs : o.gen = j.gen /\ o.pc # "queued"}) < MAX_WORKERS
    /\ jobs' = Moved(j, "running")
    /\ UNCHANGED <<fileVars, saveVars, fitCalc, lockVars, uiVars, prefetchVars, failedOnce, mainPc,
                   gridViewVars, thumbCache, stopLoading, executor,
                   pendingIndices, nextJob, callbacks>>

\* _load_and_callback as it would be without lines 1031-1032
JobCheckStopNeverStops(j) ==
    /\ j.pc = "running"
    /\ jobs' = Moved(j, "passed")
    /\ UNCHANGED <<fileVars, saveVars, fitCalc, lockVars, uiVars, prefetchVars, failedOnce, mainPc,
                   gridViewVars, thumbCache, stopLoading, executor,
                   pendingIndices, nextJob, callbacks>>

\* _load_and_callback, lines 1031-1032: return when the grid is closed
JobCheckStop(j) ==
    /\ j.pc = "running"
    /\ jobs' = IF stopLoading[j.gen] THEN jobs \ {j} ELSE Moved(j, "passed")
    /\ UNCHANGED <<fileVars, saveVars, fitCalc, lockVars, uiVars, prefetchVars, failedOnce, mainPc,
                   gridViewVars, thumbCache, stopLoading, executor,
                   pendingIndices, nextJob, callbacks>>

\* line 1033: the call of _load_single_thumb; the flag is not read again
JobBeginDecode(j) ==
    /\ j.pc = "passed"
    /\ jobs' = Moved(j, "decoding")
    /\ UNCHANGED <<fileVars, saveVars, fitCalc, lockVars, uiVars, prefetchVars, failedOnce, mainPc,
                   gridViewVars, thumbCache, stopLoading, executor,
                   pendingIndices, nextJob, callbacks>>

\* _load_and_callback as it would be without the discard of line 1035: a
\* failed decode returns and leaves its index pending
JobFailKeepsPending(j) ==
    /\ j.pc = "decoding"
    /\ LoadSingleThumb(j.idx) = "none"
    /\ jobs' = jobs \ {j}
    /\ UNCHANGED <<fileVars, saveVars, fitCalc, lockVars, uiVars, prefetchVars, failedOnce, mainPc,
                   gridViewVars, thumbCache, stopLoading, executor,
                   pendingIndices, nextJob, callbacks>>

\* lines 1033-1036: _load_single_thumb returns None; the index is no longer
\* pending
JobFail(j) ==
    /\ j.pc = "decoding"
    /\ LoadSingleThumb(j.idx) = "none"
    /\ pendingIndices' = [pendingIndices EXCEPT ![j.gen] = @ \ {j.idx}]
    /\ jobs' = jobs \ {j}
    /\ UNCHANGED <<fileVars, saveVars, fitCalc, lockVars, uiVars, prefetchVars, failedOnce, mainPc,
                   gridViewVars, thumbCache, stopLoading, executor, nextJob,
                   callbacks>>

\* lines 1033, 1037-1038: _load_single_thumb returns the thumbnail; under
\* the lock, self.app._thumb_cache[idx] = pil_img
JobPublish(j) ==
    /\ j.pc = "decoding"
    /\ LoadSingleThumb(j.idx) = "ok"
    /\ thumbCache' = [i \in DOMAIN thumbCache \cup {j.idx} |->
                         IF i = j.idx THEN j.id ELSE thumbCache[i]]
    /\ jobs' = Moved(j, "cached")
    /\ UNCHANGED <<fileVars, saveVars, fitCalc, lockVars, uiVars, prefetchVars, failedOnce, mainPc,
                   gridViewVars, stopLoading, executor, pendingIndices, nextJob,
                   callbacks>>

\* line 1039: self._pending_indices.discard(idx)
JobDiscard(j) ==
    /\ j.pc = "cached"
    /\ pendingIndices' = [pendingIndices EXCEPT ![j.gen] = @ \ {j.idx}]
    /\ jobs' = Moved(j, "posting")
    /\ UNCHANGED <<fileVars, saveVars, fitCalc, lockVars, uiVars, prefetchVars, failedOnce, mainPc,
                   gridViewVars, thumbCache, stopLoading, executor, nextJob,
                   callbacks>>

\* the end of _load_and_callback as it would be if the worker drew the
\* thumbnail itself instead of handing it to the main loop
JobDrawsThumb(j) ==
    /\ j.pc = "posting"
    /\ jobs' = jobs \ {j}
    /\ IF stopLoading[j.gen] \/ ~gridOpen \/ j.idx \notin DOMAIN canvasItems
       THEN UNCHANGED <<canvasItems, thumbPhotos>>
       ELSE /\ canvasItems' = [canvasItems EXCEPT ![j.idx] = "image"]
            /\ thumbPhotos' = thumbPhotos \cup {j.idx}
    /\ UNCHANGED <<fileVars, saveVars, fitCalc, lockVars, uiVars, prefetchVars, failedOnce, mainPc, gridOpen,
                   gridGen, drawnRows, lastVisible, scrollTimer, initialScroll,
                   gridCanvasH, yTop, loadLoop, thumbCache, stopLoading,
                   executor, pendingIndices, nextJob, callbacks>>

\* lines 1040-1043: self.win.after(0, self._update_thumb_on_canvas, idx, pil_img)
JobCallback(j) ==
    /\ j.pc = "posting"
    /\ callbacks' = callbacks \cup {[idx |-> j.idx, gen |-> j.gen]}
    /\ jobs' = jobs \ {j}
    /\ UNCHANGED <<fileVars, saveVars, fitCalc, lockVars, uiVars, prefetchVars, failedOnce, mainPc,
                   gridViewVars, thumbCache, stopLoading, executor,
                   pendingIndices, nextJob>>

\* _update_thumb_on_canvas as it would be without its first test (lines
\* 1047-1048): the cell of the index is redrawn whatever grid the callback
\* belongs to
UpdateThumbWithoutStopTest(c) ==
    /\ mainPc = "idle"
    /\ c \in callbacks
    /\ callbacks' = callbacks \ {c}
    /\ IF c.idx \notin DOMAIN canvasItems
       THEN UNCHANGED <<canvasItems, thumbPhotos>>
       ELSE /\ canvasItems' = [canvasItems EXCEPT ![c.idx] = "image"]
            /\ thumbPhotos' = thumbPhotos \cup {c.idx}
    /\ UNCHANGED <<fileVars, saveVars, fitCalc, lockVars, uiVars, prefetchVars, failedOnce, mainPc, gridOpen,
                   gridGen, drawnRows, lastVisible, scrollTimer, initialScroll,
                   gridCanvasH, yTop, loadLoop, thumbCache, stopLoading,
                   executor, pendingIndices, jobs, nextJob>>

\* _update_thumb_on_canvas as it would be without the test of lines 1049-1050
\* (idx not in self._canvas_items): the thumbnail is drawn whether the cell
\* is among the drawn cells or not
UpdateThumbDrawsAnyCell(c) ==
    /\ mainPc = "idle"
    /\ c \in callbacks
    /\ callbacks' = callbacks \ {c}
    /\ IF stopLoading[c.gen] \/ ~gridOpen
       THEN UNCHANGED <<canvasItems, thumbPhotos>>
       ELSE /\ canvasItems' = [i \in DOMAIN canvasItems \cup {c.idx} |->
                                  IF i = c.idx THEN "image" ELSE canvasItems[i]]
            /\ thumbPhotos' = thumbPhotos \cup {c.idx}
    /\ UNCHANGED <<fileVars, saveVars, fitCalc, lockVars, uiVars, prefetchVars, failedOnce, mainPc, gridOpen,
                   gridGen, drawnRows, lastVisible, scrollTimer, initialScroll,
                   gridCanvasH, yTop, loadLoop, thumbCache, stopLoading,
                   executor, pendingIndices, jobs, nextJob>>

\* _update_thumb_on_canvas runs on the main loop
UpdateThumbOnCanvas(c) ==
    /\ mainPc = "idle"
    /\ c \in callbacks
    /\ callbacks' = callbacks \ {c}
    /\ IF stopLoading[c.gen] \/ ~gridOpen \/ c.idx \notin DOMAIN canvasItems
       THEN UNCHANGED <<canvasItems, thumbPhotos>>
       ELSE /\ canvasItems' = [canvasItems EXCEPT ![c.idx] = "image"]
            /\ thumbPhotos' = thumbPhotos \cup {c.idx}
    /\ UNCHANGED <<fileVars, saveVars, fitCalc, lockVars, uiVars, prefetchVars, failedOnce, mainPc, gridOpen,
                   gridGen, drawnRows, lastVisible, scrollTimer, initialScroll,
                   gridCanvasH, yTop, loadLoop, thumbCache, stopLoading,
                   executor, pendingIndices, jobs, nextJob>>

\* _on_close: the flag, executor.shutdown(wait=False, cancel_futures=True),
\* the photo handles, the window; win.destroy() takes the canvas, its items
\* and the tasks scheduled on the window with it
CloseEffects ==
    /\ stopLoading' = [stopLoading EXCEPT ![G] = TRUE]
    /\ jobs' = IF executor[G]
               THEN {j \in jobs : ~(j.gen = G /\ j.pc = "queued")}
               ELSE jobs
    /\ thumbPhotos' = {}
    /\ gridOpen' = FALSE
    /\ drawnRows' = {}
    /\ canvasItems' = EmptyCache
    /\ lastVisible' = <<0, 0>>
    /\ scrollTimer' = NoTimer
    /\ initialScroll' = FALSE
    /\ gridCanvasH' = UnmappedHeight
    /\ yTop' = 0

\* _on_close as it would be if it emptied the thumbnail cache together with
\* the photo handles
OnCloseDropsThumbs ==
    /\ mainPc = "idle"
    /\ gridOpen
    /\ CloseEffects
    /\ thumbCache' = EmptyCache
    /\ UNCHANGED <<fileVars, saveVars, fitCalc, lockVars, uiVars, prefetchVars, failedOnce, mainPc, gridGen,
                   loadLoop, executor, pendingIndices, nextJob, callbacks>>

\* _on_close, from the window manager or the Escape key
OnClose ==
    /\ mainPc = "idle"
    /\ gridOpen
    /\ CloseEffects
    /\ UNCHANGED <<fileVars, saveVars, fitCalc, lockVars, uiVars, prefetchVars, failedOnce, mainPc, gridGen,
                   loadLoop, thumbCache, executor, pendingIndices, nextJob,
                   callbacks>>

\* the cell a click at (x, y) of the window is in
ClickCol(x) == TruncDiv(x - 10, CELL_W)
ClickRow(y) == TruncDiv(yTop + y, CELL_H)
ClickIdx(x, y) == ClickRow(y) * COLUMNS + ClickCol(x)
ClickHits(x, y) ==
    /\ ClickCol(x) >= 0
    /\ ClickCol(x) < COLUMNS
    /\ ClickIdx(x, y) >= 0
    /\ ClickIdx(x, y) < nImages

\* _on_click on a cell: the index, _on_close(), show_image()
OnClick(x, y) ==
    /\ mainPc = "idle"
    /\ gridOpen
    /\ ClickHits(x, y)
    /\ CloseEffects
    /\ LoadAndShow(ClickIdx(x, y))
    /\ UNCHANGED <<gridGen, loadLoop, thumbCache, executor, pendingIndices,
                   nextJob, callbacks>>

\* _on_click anywhere else returns
OnClickMiss(x, y) ==
    /\ mainPc = "idle"
    /\ gridOpen
    /\ ~ClickHits(x, y)
    /\ UNCHANGED vars

(* ------------------------------- locks -------------------------------- *)
\* The `with` blocks of the two locks, by the line of their `with`: a thread
\* is "atN" when it is about to enter the block of line N (it waits there
\* while the lock is held), "inN" inside it, and at a named position while
\* it decodes or resamples. What the blocks do to the caches is modelled by
\* the actions above; here the tests of the blocks are nondeterministic.

\* `with lock:` is entered: threading.Lock.acquire blocks while it is held
Acquire(p, l, from, to) ==
    /\ lockPc[p] = from
    /\ lockOwner[l] = "free"
    /\ lockOwner' = [lockOwner EXCEPT ![l] = p]
    /\ lockPc' = [lockPc EXCEPT ![p] = to]
    /\ UNCHANGED <<fileVars, saveVars, fitCalc, uiVars, prefetchVars, failedOnce, mainPc, gridVars>>

\* the `with` block is left, by its end or by `continue`
Release(p, l, from, to) ==
    /\ lockPc[p] = from
    /\ lockOwner' = [lockOwner EXCEPT ![l] = "free"]
    /\ lockPc' = [lockPc EXCEPT ![p] = to]
    /\ UNCHANGED <<fileVars, saveVars, fitCalc, uiVars, prefetchVars, failedOnce, mainPc, gridVars>>

\* code outside the `with` blocks
Goto(p, from, to) ==
    /\ lockPc[p] = from
    /\ lockPc' = [lockPc EXCEPT ![p] = to]
    /\ UNCHANGED <<lockOwner, fileVars, saveVars, fitCalc, uiVars, prefetchVars, failedOnce, mainPc,
                   gridVars>>

\* _preload_next, lines 182-186: the purge; then the loop begins, or there
\* is no index to prefetch
PreloadPurgeBlock(p) ==
    \/ Goto(p, "idle", "at182")
    \/ Acquire(p, "preload", "at182", "in182")
    \/ \E to \in {"at192", "idle"} : Release(p, "preload", "in182", to)

\* lines 192-194 as they would be if the decode were inside the block: the
\* lock is kept while the file is decoded
PreloadCheckBlockKeepsLock(p) ==
    \/ Acquire(p, "preload", "at192", "in192")
    \/ \E to \in {"at192", "idle"} : Release(p, "preload", "in192", to)
    \/ Goto(p, "in192", "decode196")

\* lines 192-194: the test for an entry; `continue` leaves the block for the
\* next index or the end of the loop, otherwise the decode follows
PreloadCheckBlock(p) ==
    \/ Acquire(p, "preload", "at192", "in192")
    \/ \E to \in {"at192", "idle", "decode196"} : Release(p, "preload", "in192", to)

\* lines 195-206: _load_image_from_disk, then img.resize unless it failed,
\* then the store, and the next index or the end of the loop
PreloadDecodeStore(p) ==
    \/ \E to \in {"resize203", "at205"} : Goto(p, "decode196", to)
    \/ Goto(p, "resize203", "at205")
    \/ Acquire(p, "preload", "at205", "in205")
    \/ \E to \in {"at192", "idle"} : Release(p, "preload", "in205", to)

\* load_image, lines 222-232: the pop; on a miss the main loop decodes
LoadImagePopBlock ==
    \/ Goto("main", "idle", "at222")
    \/ Acquire("main", "preload", "at222", "in222")
    \/ \E to \in {"decode229", "render"} : Release("main", "preload", "in222", to)
    \/ Goto("main", "decode229", "render")

\* _render, _render_phone_mode: the main loop resamples the image
MainRender ==
    \/ Goto("main", "idle", "render")
    \/ Goto("main", "render", "idle")

\* _refit_image, lines 719-729: the clear, then the render
RefitClearBlock ==
    \/ Goto("main", "idle", "at719")
    \/ Acquire("main", "preload", "at719", "in719")
    \/ Release("main", "preload", "in719", "render")

\* _draw_row, lines 968-969: the read of the thumbnail of one cell
DrawRowGetBlock ==
    \/ Goto("main", "idle", "at968")
    \/ Acquire("main", "thumb", "at968", "in968")
    \/ \E to \in {"at968", "at1013", "idle"} : Release("main", "thumb", "in968", to)

\* _load_visible_thumbs, lines 1013-1015: the test of one index
LoadVisibleCheckBlock ==
    \/ Acquire("main", "thumb", "at1013", "in1013")
    \/ \E to \in {"at1013", "idle"} : Release("main", "thumb", "in1013", to)

\* _load_and_callback: the stop test, the decode and the return when it
\* fails (lines 1031-1036), the store (lines 1037-1038), and the rest
LoadAndCallback(p) ==
    \/ \E to \in {"decode1033", "idle"} : Goto(p, "idle", to)
    \/ \E to \in {"at1037", "idle"} : Goto(p, "decode1033", to)
    \/ Acquire(p, "thumb", "at1037", "in1037")
    \/ Release(p, "thumb", "in1037", "idle")

\* SpecLocks: the main loop, two prefetch threads and two workers run the
\* code paths that take the cache locks, in any interleaving
InitLocks ==
    /\ fitCalc = NoCalc
    /\ nImages = ResizeImages
    /\ bad = {}
    /\ thumbCache = EmptyCache
    /\ destFiles = {}
    /\ ViewerInit
    /\ GridInit

NextLocks ==
    \/ \E p \in {"preload1", "preload2"} : PreloadPurgeBlock(p)
    \/ \E p \in {"preload1", "preload2"} : PreloadCheckBlock(p)
    \/ \E p \in {"preload1", "preload2"} : PreloadDecodeStore(p)
    \/ LoadImagePopBlock
    \/ MainRender
    \/ RefitClearBlock
    \/ DrawRowGetBlock
    \/ LoadVisibleCheckBlock
    \/ \E p \in {"worker1", "worker2"} : LoadAndCallback(p)

SpecLocks == InitLocks /\ [][NextLocks]_vars

(* ----------------------- viewer specifications ------------------------ *)
PreloadStep ==
    \E t \in 1..MaxThreads :
        \/ PreloadIndices(t)
        \/ PreloadPurge(t)
        \/ PreloadReadSize(t)
        \/ PreloadCheck(t)
        \/ PreloadDecode(t)
        \/ PreloadPublish(t)

\* SpecNav: the user steps through NumImages files, some of them broken,
\* while the window keeps its size
InitNav ==
    /\ fitCalc = NoCalc
    /\ nImages = NumImages
    /\ bad \in BadChoices
    /\ thumbCache = EmptyCache
    /\ destFiles = {}
    /\ ViewerInit
    /\ GridInit

NextNav ==
    \/ OnNext
    \/ OnPrev
    \/ MainDecodeDone
    \/ HqFire
    \/ PreloadStep

SpecNav == InitNav /\ [][NextNav]_vars

\* SpecResize: the user steps through ResizeImages sound files while the
\* window is mapped, resized and switched to and from fullscreen
InitResize ==
    /\ fitCalc = NoCalc
    /\ nImages = ResizeImages
    /\ bad = {}
    /\ thumbCache = EmptyCache
    /\ destFiles = {}
    /\ ViewerInit
    /\ GridInit

NextResize ==
    \/ OnNext
    \/ OnPrev
    \/ MainDecodeDone
    \/ \E sz \in CanvasSizes : OnResize(sz)
    \/ ResizeFire
    \/ HqFire
    \/ ToggleFullscreen
    \/ RefitImage
    \/ PreloadStep

SpecResize == InitResize /\ [][NextResize]_vars

\* SpecView: the user steps through ResizeImages files, one of them possibly
\* broken, zooms and switches the phone preview on and off, while the
\* window keeps its size
InitView ==
    /\ fitCalc = NoCalc
    /\ nImages = ResizeImages
    /\ bad \in BadChoices
    /\ thumbCache = EmptyCache
    /\ destFiles = {}
    /\ ViewerInit
    /\ GridInit

NextView ==
    \/ OnNext
    \/ OnPrev
    \/ MainDecodeDone
    \/ HqFire
    \/ \E up \in BOOLEAN : OnMouseWheel(up)
    \/ TogglePhoneMode
    \/ PreloadStep

SpecView == InitView /\ [][NextView]_vars

\* SpecZoom: the user zooms all the way in and out, resets the zoom, steps
\* between the files and switches the phone preview on and off
InitZoom ==
    /\ fitCalc = NoCalc
    /\ nImages = ZoomImages
    /\ bad = {}
    /\ thumbCache = EmptyCache
    /\ destFiles = {}
    /\ ViewerInit
    /\ GridInit

NextZoom ==
    \/ OnNext
    \/ OnPrev
    \/ MainDecodeDone
    \/ HqFire
    \/ \E up \in BOOLEAN : OnMouseWheelWithin(up, MaxZoom)
    \/ ResetZoom
    \/ TogglePhoneMode
    \/ PreloadStep

SpecZoom == InitZoom /\ [][NextZoom]_vars

\* SpecWindow: the user steps forward through WindowImages sound files while
\* the prefetch threads run
InitWindow ==
    /\ fitCalc = NoCalc
    /\ nImages = WindowImages
    /\ bad = {}
    /\ thumbCache = EmptyCache
    /\ destFiles = {}
    /\ ViewerInit
    /\ GridInit

NextWindow ==
    \/ OnNext
    \/ MainDecodeDone
    \/ PreloadStep

SpecWindow == InitWindow /\ [][NextWindow]_vars

\* SpecPan: the user drags the image, zooms, toggles phone mode and goes to
\* the next file while the prefetch threads run
NextPan ==
    \/ \E pt \in DragPoints : OnDragStart(pt)
    \/ \E pt \in DragPoints : OnDragMove(pt, PanSpan)
    \/ \E up \in BOOLEAN : OnMouseWheel(up)
    \/ HqFire
    \/ TogglePhoneMode
    \/ OnNext
    \/ MainDecodeDone
    \/ PreloadStep

SpecPan == InitZoom /\ [][NextPan]_vars

\* SpecFit: the fit computations of the three code sites applied to one image
\* size and one viewport
InitFit ==
    /\ fitCalc \in {[NoCalc EXCEPT !.img = <<w, h>>, !.view = v] :
                        w \in FitWidths, h \in FitHeights, v \in FitViews}
    /\ nImages = ResizeImages
    /\ bad = {}
    /\ thumbCache = EmptyCache
    /\ destFiles = {}
    /\ ViewerInit
    /\ GridInit

NextFit ==
    \/ ApplyPreloadFit
    \/ ApplyExpectedFit
    \/ ApplyRenderFit
    \/ ApplyFitAgain

SpecFit == InitFit /\ [][NextFit]_vars

(* ------------------------- claims: the viewer ------------------------- *)
AllIndices == 0..(nImages - 1)

\* who is decoding file i now: prefetch threads (by slot), the main loop (0)
Decoders(i) ==
    {t \in 1..MaxThreads : threads[t].pc = "decode" /\ ThreadIdx(t) = i}
        \cup (IF mainPc = "decoding" /\ index = i THEN {0} ELSE {})

\* this step begins a decode of file i, on a prefetch thread or the main loop
StartsDecode(i) ==
    \/ \E t \in 1..MaxThreads :
          /\ threads[t].pc = "check"
          /\ threads'[t].pc = "decode"
          /\ ThreadIdx(t) = i
    \/ mainPc = "idle" /\ mainPc' = "decoding" /\ index' = i

\* {i, i+1, ..., i+N} within the valid range
Window(i) == {i} \cup Indices(i)

\* C1: each index has at most one decode in flight at any instant.
C1_SingleFlight ==
    \A i \in AllIndices : Cardinality(Decoders(i)) <= 1

\* C5: once the purge of the latest navigation step has run, the window
\* holds no entry outside {i, ..., i+N}, whatever older threads publish.
C5_NoStaleEntry ==
    (mainPc = "idle" /\ threads[lastThread].pc \notin {"start", "purge"})
        => DOMAIN preloadCache \subseteq Window(index)

\* C6: when the user has stopped navigating and every thread has run to its
\* end, the window holds an entry for every index of {i+1, ..., i+N}.
C6_WindowFilled ==
    (mainPc = "idle" /\ \A t \in 1..MaxThreads : threads[t].pc = "idle")
        => Indices(index) \subseteq DOMAIN preloadCache

RefitStep == refitTimers' = refitTimers - 1
ResizeStep == resizeTimer # resizeTimer'

JobStep ==
    \E j \in jobs :
        \/ JobStart(j)
        \/ JobCheckStop(j)
        \/ JobBeginDecode(j)
        \/ JobFail(j)
        \/ JobPublish(j)
        \/ JobDiscard(j)
        \/ JobCallback(j)

\* SpecGrid: the user opens, resizes, scrolls, clicks and closes grids over
\* GridImages files, and navigates and toggles fullscreen in between (the
\* grid is modal); the prefetch threads of the viewer are not scheduled
InitGrid ==
    /\ fitCalc = NoCalc
    /\ nImages = GridImages
    /\ bad \in GridBadChoices
    /\ thumbCache = [i \in (0..(GridImages - 1)) \ ColdThumbs |-> 0]
    /\ destFiles = {}
    /\ ViewerInit
    /\ GridInit

NextGrid ==
    \/ OpenGrid
    \/ \E h \in GridHeights : GridConfigure(h)
    \/ InitialScroll
    \/ \E y \in ScrollOffsets : OnMousewheel(y)
    \/ ScrollFire
    \/ LoadCheckCache
    \/ LoadCheckPending
    \/ LoadSubmit
    \/ JobStep
    \/ \E c \in callbacks : UpdateThumbOnCanvas(c)
    \/ OnClose
    \/ \E x \in ClickXs, y \in ClickYs : OnClick(x, y)
    \/ \E x \in ClickXs, y \in ClickYs : OnClickMiss(x, y)
    \/ MainDecodeDone
    \/ OnNext
    \/ ToggleFullscreen
    \/ RefitImage

SpecGrid == InitGrid /\ [][NextGrid]_vars

\* SpecDebounce: the three debounced channels together: the user resizes the
\* window and zooms (resize and high-quality render), and scrolls a grid
\* whose thumbnails are all in the cache (grid scroll)
InitDebounce ==
    /\ fitCalc = NoCalc
    /\ nImages = GridImages
    /\ bad = {}
    /\ thumbCache = [i \in 0..(GridImages - 1) |-> 0]
    /\ destFiles = {}
    /\ ViewerInit
    /\ GridInit

NextDebounce ==
    \/ \E sz \in CanvasSizes : OnResize(sz)
    \/ ResizeFire
    \/ HqFire
    \/ \E up \in BOOLEAN : OnMouseWheel(up)
    \/ ResetZoom
    \/ OpenGrid
    \/ \E h \in GridHeights : GridConfigure(h)
    \/ InitialScroll
    \/ \E y \in ScrollOffsets : OnMousewheel(y)
    \/ ScrollFire
    \/ LoadCheckCache
    \/ LoadSubmit
    \/ OnClose

SpecDebounce == InitDebounce /\ [][NextDebounce]_vars

\* SpecBackground: prefetch threads and thumbnail workers together: the user
\* opens the grid while the prefetch thread of the first image still runs,
\* closes it or picks an image in it, and opens it again
InitBackground ==
    /\ fitCalc = NoCalc
    /\ nImages = GridImages
    /\ bad \in GridBadChoices
    /\ thumbCache = [i \in (0..(GridImages - 1)) \ ColdThumbs |-> 0]
    /\ destFiles = {}
    /\ ViewerInit
    /\ GridInit

NextBackground ==
    \/ PreloadStep
    \/ MainDecodeDone
    \/ \E x \in ClickXs, y \in ClickYs : OnClick(x, y)
    \/ OpenGrid
    \/ \E h \in GridHeights : GridConfigure(h)
    \/ InitialScroll
    \/ LoadCheckCache
    \/ LoadCheckPending
    \/ LoadSubmit
    \/ JobStep
    \/ \E c \in callbacks : UpdateThumbOnCanvas(c)
    \/ OnClose

SpecBackground == InitBackground /\ [][NextBackground]_vars

\* SpecPool: the grid of a folder none of whose thumbnails is cached is
\* opened, closed while its workers decode, and opened again. The decodes
\* take longer than the run; each executor hands out its jobs in the order
\* of submission, and a worker begins its decode before the next job is
\* taken.
InitPool ==
    /\ fitCalc = NoCalc
    /\ nImages = GridImages
    /\ bad = {}
    /\ thumbCache = EmptyCache
    /\ destFiles = {}
    /\ ViewerInit
    /\ GridInit

NextPool ==
    \/ OpenGrid
    \/ \E h \in GridHeights : GridConfigure(h)
    \/ InitialScroll
    \/ LoadCheckCache
    \/ LoadCheckPending
    \/ LoadSubmitWithin(PoolJobs)
    \/ \E j \in jobs :
          /\ \A o \in jobs :
                /\ o.pc \notin {"running", "passed"}
                /\ (o.pc = "queued" /\ o.gen = j.gen) => o.id >= j.id
          /\ JobStart(j)
    \/ \E j \in jobs : JobCheckStop(j)
    \/ \E j \in jobs : JobBeginDecode(j)
    \/ OnClose

SpecPool == InitPool /\ [][NextPool]_vars

\* SpecGridView: the grid of a folder of several rows or of a single row,
\* with canvases of two heights, scrolled and clicked
InitGridView ==
    /\ fitCalc = NoCalc
    /\ nImages \in {GridImages, SmallGridImages}
    /\ \E c \in ViewColdThumbs :
          /\ c < nImages
          /\ bad \in {{}, {c}}
          /\ thumbCache = [i \in (0..(nImages - 1)) \ {c} |-> 0]
    /\ destFiles = {}
    /\ ViewerInit
    /\ GridInit

NextGridView ==
    \/ OpenGrid
    \/ \E h \in ViewHeights : GridConfigure(h)
    \/ InitialScroll
    \/ \E y \in ViewOffsets : OnMousewheel(y)
    \/ ScrollFire
    \/ LoadCheckCache
    \/ LoadCheckPending
    \/ LoadSubmit
    \/ JobStep
    \/ \E c \in callbacks : UpdateThumbOnCanvas(c)
    \/ OnClose
    \/ \E x \in ViewClickXs, y \in ClickYs : OnClick(x, y)
    \/ \E x \in ViewClickXs, y \in ClickYs : OnClickMiss(x, y)
    \/ MainDecodeDone

SpecGridView == InitGridView /\ [][NextGridView]_vars

\* SpecIndex: the user steps forward and backward through a folder of one
\* grid row, and opens the grid and clicks in it, while the prefetch threads
\* run
InitIndex ==
    /\ fitCalc = NoCalc
    /\ nImages = SmallGridImages
    /\ bad = {}
    /\ thumbCache = [i \in 0..(SmallGridImages - 1) |-> 0]
    /\ destFiles = {}
    /\ ViewerInit
    /\ GridInit

NextIndex ==
    \/ OnNext
    \/ OnPrev
    \/ MainDecodeDone
    \/ PreloadStep
    \/ OpenGrid
    \/ \E x \in IndexClickXs, y \in ClickYs : OnClick(x, y)
    \/ \E x \in IndexClickXs, y \in ClickYs : OnClickMiss(x, y)
    \/ OnClose

SpecIndex == InitIndex /\ [][NextIndex]_vars

\* SpecSave: the user steps through a folder of ResizeImages files and saves
\* images into a destination folder that may hold files of the same names,
\* while the prefetch threads run
InitSave ==
    /\ fitCalc = NoCalc
    /\ nImages = ResizeImages
    /\ bad = {}
    /\ thumbCache = EmptyCache
    /\ destFiles \in DestChoices
    /\ ViewerInit
    /\ GridInit

NextSave ==
    \/ OnNext
    \/ OnPrev
    \/ MainDecodeDone
    \/ PreloadStep
    \/ OnSave
    \/ \E answer \in Answers : AskOverwrite(answer)

SpecSave == InitSave /\ [][NextSave]_vars

\* SpecPending: a grid over GridImages files is opened, scrolled and closed
\* while its workers decode. The pool has a free worker for every job
\* submitted (at most MaxJobs, fewer than MAX_WORKERS), and a worker thread
\* that can take a step takes it in the end: each job is scheduled fairly.
NextPending ==
    \/ OpenGrid
    \/ \E h \in GridHeights : GridConfigure(h)
    \/ InitialScroll
    \/ \E y \in ScrollOffsets : OnMousewheel(y)
    \/ ScrollFire
    \/ LoadCheckCache
    \/ LoadCheckPending
    \/ LoadSubmit
    \/ JobStep
    \/ \E c \in callbacks : UpdateThumbOnCanvas(c)
    \/ OnClose

\* one step of the worker that runs job id
WorkerStep(id) ==
    \E j \in jobs :
        /\ j.id = id
        /\ \/ JobStart(j)
           \/ JobCheckStop(j)
           \/ JobBeginDecode(j)
           \/ JobFail(j)
           \/ JobPublish(j)
           \/ JobDiscard(j)
           \/ JobCallback(j)

SpecPending ==
    /\ InitGrid
    /\ [][NextPending]_vars
    /\ \A id \in 1..MaxJobs : WF_vars(WorkerStep(id))

(* ------------------------------ C2, C3, C4 ---------------------------- *)
\* the thumbnail jobs of index i that are queued or running and have their
\* decode ahead of them or under way (a job that is about to return at the
\* test of _stop_loading is not counted)
ThumbDecoders(i) ==
    {j \in jobs : /\ j.idx = i
                  /\ \/ j.pc \in {"queued", "passed", "decoding"}
                     \/ j.pc = "running" /\ ~stopLoading[j.gen]}

JobIds(js) == {j.id : j \in js}

\* C2 (as claimed): at no instant are two thumbnail decode jobs for the same
\* index queued or running
C2_ThumbSingleFlight ==
    \A i \in 0..(nImages - 1) : Cardinality(ThumbDecoders(i)) <= 1

\* C3 (as claimed): once the thumbnail of an index is in the thumbnail cache,
\* no step creates another job for that index and no step replaces the entry
C3_PublishedOnce ==
    [][\A i \in DOMAIN thumbCache :
          /\ thumbCache'[i] = thumbCache[i]
          /\ \A j \in jobs' : j.idx = i => j.id \in JobIds(jobs)]_vars

\* C4: the thumbnail cache only grows: an index that is in the cache before
\* a step is in it after the step, whichever step it is (open, scroll,
\* click, close, navigation, refit, or a step of a job)
C4_ThumbCacheOnlyGrows ==
    [][DOMAIN thumbCache \subseteq DOMAIN thumbCache']_vars

\* C4: a second grid is open after the first was closed, its jobs have added
\* an entry to the cache the first grid left, and the user has navigated
C4_Witness ==
    /\ gridGen = MaxGrids
    /\ ColdThumbs \subseteq DOMAIN thumbCache
    /\ \E c \in callbacks : c.gen = MaxGrids
    /\ index # 0

(* --------------------------------- C11 -------------------------------- *)
\* C11 (as claimed): whenever show_image has completed for an index whose
\* decode failed, the canvas shows the "cannot load" text, in every
\* rendering mode
C11_CannotLoadShown ==
    (mainPc = "idle" /\ currentPil = "none") => display.kind = "cannot"

(* --------------------------------- C12 -------------------------------- *)
\* what a step does to prefetch pass t: the pass ends only after the last
\* index of its list, an index without an entry is decoded, a decode
\* (failed or not) is followed by the publication of its outcome, and the
\* pass goes from one index of its list to the next
PassStep(t) ==
    LET th == threads[t]
        nx == threads'[t]
    IN nx # th =>
        /\ (th.pc \in {"check", "decode", "publish"} /\ nx.pc = "idle")
              => th.k = IndicesLen(th.base)
        /\ (th.pc = "check" /\ ThreadIdx(t) \notin DOMAIN preloadCache)
              => (nx.pc = "decode" /\ nx.k = th.k)
        /\ th.pc = "decode" => (nx.pc = "publish" /\ nx.k = th.k)
        /\ th.pc = "publish"
              => /\ ThreadIdx(t) \in DOMAIN preloadCache'
                 /\ preloadCache'[ThreadIdx(t)].img = th.img
                 /\ nx.pc = "check" => (nx.k = th.k + 1 /\ nx.base = th.base)

\* C12: a decode failure for one index of a prefetch pass does not stop the
\* pass; every index of its list that has no entry when the pass comes to it
\* is decoded and published by the pass
C12_FailureDoesNotStopPass == [][\A t \in 1..MaxThreads : PassStep(t)]_vars

\* the only pass of the run has published the failure of index 2 and is
\* publishing the image of index 3
C12_Witness ==
    \E t \in 1..MaxThreads :
        /\ \A o \in 1..MaxThreads \ {t} : threads[o].pc = "idle"
        /\ index = 0
        /\ threads[t].base = 0
        /\ threads[t].pc = "publish"
        /\ threads[t].img = "ok"
        /\ ThreadIdx(t) = 3
        /\ HasFailure(2)
        /\ 3 \notin DOMAIN preloadCache

(* --------------------------------- C13 -------------------------------- *)
\* a zoom event that follows an earlier zoom event of the same image: the
\* level is away from the 100 per cent a load sets, and the wheel moves it
ZoomAgain ==
    /\ zoomLevel # 100
    /\ zoomLevel' # zoomLevel
    /\ phoneMode' = phoneMode
    /\ UNCHANGED <<index, currentPil, mainPc>>

\* C13 (as claimed): after the second of two zoom events exactly one
\* deferred high-quality resample is pending, the one the second event
\* scheduled
C13_OneDeferredResample ==
    [][ZoomAgain => (hqTimer'.n = 1 /\ hqTimer'.live)]_vars

\* C13 (amended): outside the phone preview, after the second of two zoom
\* events exactly one deferred high-quality resample is pending, the one the
\* second event scheduled; in the phone preview a zoom event schedules none
C13_OneDeferredResampleNormalMode ==
    [][ZoomAgain => IF phoneMode THEN hqTimer' = hqTimer
                    ELSE hqTimer'.n = 1 /\ hqTimer'.live]_vars

\* two zoom steps in, outside the phone preview, the fast rendering on the
\* canvas and one deferred resample pending
C13_Witness ==
    /\ ~phoneMode
    /\ zoomLevel = ZoomIn(ZoomIn(100))
    /\ display.kind = "fast"
    /\ hqTimer.n = 1
    /\ hqTimer.live

(* --------------------------------- C14 -------------------------------- *)
\* C14 (as claimed): fitting the already-fitted size to the same viewport
\* again yields exactly the fitted size
C14_FitIdempotent ==
    fitCalc.again # NoSize => fitCalc.again = fitCalc.pre

(* --------------------------------- C15 -------------------------------- *)
\* round(x * n / d), halves upwards
RoundOfProduct(x, n, d) == (2 * x * n + d) \div (2 * d)
RoundedFit(sz, cs) ==
    LET scale == Ratio(sz, cs)
    IN <<Max(RoundOfProduct(sz[1], scale[1], scale[2]), 1),
         Max(RoundOfProduct(sz[2], scale[1], scale[2]), 1)>>

\* C15 (as claimed): the sizes the prefetcher, the fitted-validity check and
\* the renderer at zoom 1.0 compute equal (max(round(w*scale),1),
\* max(round(h*scale),1)) with scale = min(vw/w, vh/h), and agree with each
\* other
C15_SitesComputeRoundedFit ==
    LET done == {r \in {fitCalc.pre, fitCalc.exp, fitCalc.ren} : r # NoSize}
    IN /\ \A r \in done : r = RoundedFit(fitCalc.img, fitCalc.view)
       /\ Cardinality(done) <= 1

(* --------------------------------- C16 -------------------------------- *)
\* a step of the completion of a thumbnail job whose grid is closed: the job
\* moves on or ends, or its callback runs
LateCompletion ==
    \/ \E j \in jobs : stopLoading[j.gen] /\ j \notin jobs'
    \/ \E c \in callbacks : stopLoading[c.gen] /\ c \notin callbacks'

\* C16: once a grid is closed, the completion of its thumbnail jobs (those in
\* flight at the close, and the callbacks queued by then) changes nothing of
\* the grid view state (canvas items, photo handles, drawn rows) nor of the
\* viewer; it changes only the thumbnail cache and the pending set
C16_LateCompletionLeavesView ==
    [][LateCompletion =>
          UNCHANGED <<canvasItems, thumbPhotos, drawnRows, lastVisible, uiVars>>]_vars

\* the only job of the run, submitted by the first grid, published its
\* thumbnail after the second grid had drawn the placeholder of that index,
\* its callback has run, and the placeholder is still there
C16_Witness ==
    /\ gridOpen
    /\ gridGen = 2
    /\ mainPc = "idle"
    /\ nextJob = 1
    /\ jobs = {}
    /\ callbacks = {}
    /\ \E i \in DOMAIN canvasItems \cap DOMAIN thumbCache : canvasItems[i] = "text"

(* --------------------------------- C17 -------------------------------- *)
\* the jobs that are about to begin their decode in this step, and the jobs
\* submitted in this step
BeginDecode == {j \in jobs' : j.pc = "decoding" /\ j \notin jobs}
Submitted == {j \in jobs' : j.id \notin JobIds(jobs)}

\* C17 (as claimed): once a grid is closed, none of its jobs begins a decode,
\* and no job is submitted to its pool
C17_NoDecodeBeginsAfterClose ==
    [][/\ \A j \in BeginDecode : ~stopLoading[j.gen]
       /\ \A j \in Submitted : ~stopLoading'[j.gen]]_vars

\* C17 (amended): once a grid is closed, none of its jobs that has not yet
\* passed the test of _stop_loading goes past it (a queued job is cancelled,
\* a job a worker has taken returns at the test), and no job is submitted to
\* its pool
C17_NoJobPassesStopTestAfterClose ==
    [][/\ \A j \in jobs : (stopLoading[j.gen] /\ j.pc \in {"queued", "running"})
             => \A o \in jobs' : o.id = j.id => o.pc \in {"queued", "running"}
       /\ \A j \in jobs' : (stopLoading'[j.gen] /\ executor'[j.gen])
             => j.pc # "queued"
       /\ \A j \in Submitted : ~stopLoading'[j.gen]]_vars

\* the only job of the run was submitted, its grid is closed, and the job is
\* gone without a decode: the file is sound, yet no thumbnail is in the cache
\* and the index is pending still
C17_Witness ==
    /\ nextJob = 1
    /\ jobs = {}
    /\ bad = {}
    /\ stopLoading[1]
    /\ ColdThumbs \cap DOMAIN thumbCache = {}
    /\ pendingIndices[1] = ColdThumbs

(* --------------------------------- C18 -------------------------------- *)
\* the rows of which some pixel is inside the view that is h high and
\* begins at y, and these rows with one row more on each side
VisibleRows(y, h) ==
    {r \in 0..(TotalRows - 1) : r * CELL_H < y + h /\ (r + 1) * CELL_H > y}
OverscanRows(y, h) ==
    {r \in 0..(TotalRows - 1) : \E v \in VisibleRows(y, h) : Abs(r - v) <= 1}

\* C18 (as claimed): a prefetch thread decodes index k only if k is one of
\* the PreloadCount indices after the index its pass began at, and a
\* thumbnail job is submitted for index k only if k is in a row of the
\* visible range with one row of overscan, at the time of the submission
C18_OnlyRequestedDecoded ==
    [][/\ \A t \in 1..MaxThreads :
             (threads'[t].pc = "decode" /\ threads[t].pc # "decode")
                => (threads'[t].base + threads'[t].k) \in
                      (threads'[t].base + 1)..(threads'[t].base + PreloadCount)
       /\ \A j \in Submitted :
             j.idx \in CellsOf(OverscanRows(yTop, gridCanvasH))]_vars

(* --------------------------------- C19 -------------------------------- *)
\* C19 (as claimed): once the grid has handled its scroll and resize events,
\* the first one after it opened included, the rows drawn are the rows of
\* the visible range with one row of overscan, and the thumbnail of every
\* sound file in them is in the cache or requested; for every number of
\* files, a single row of them included
C19_DrawnRowsAreVisibleRows ==
    (gridOpen /\ mainPc = "idle" /\ gridCanvasH > UnmappedHeight
        /\ scrollTimer.n = 0)
    => /\ drawnRows = OverscanRows(yTop, gridCanvasH)
       /\ \A i \in CellsOf(OverscanRows(yTop, gridCanvasH)) \ bad :
             \/ i \in DOMAIN thumbCache
             \/ i \in pendingIndices[G]
             \/ \E j \in jobs : j.idx = i

(* --------------------------------- C20 -------------------------------- *)
\* integer division that rounds down: the cell of a position, also to the
\* left of the first cell
FloorDiv(x, d) == IF x >= 0 THEN x \div d ELSE 0 - ((d - 1 - x) \div d)

\* a click has selected an image: the grid closes and show_image runs
ClickSelects ==
    /\ gridOpen
    /\ ~gridOpen'
    /\ (mainPc' # mainPc \/ threads' # threads)

\* C20 (as claimed): a click selects row*COLUMNS+col of the cell under the
\* pointer, and only when the pointer is in one of the columns 0..COLUMNS-1
\* and the index is below the number of files; a click anywhere else (to
\* the left of the first column too) selects nothing
C20_ClickSelectsCellUnderPointer ==
    [][ClickSelects =>
          \E x \in ViewClickXs, y \in ClickYs :
              /\ FloorDiv(x - 10, CELL_W) \in 0..(COLUMNS - 1)
              /\ index' = FloorDiv(yTop + y, CELL_H) * COLUMNS
                             + FloorDiv(x - 10, CELL_W)
              /\ index' < nImages]_vars

(* --------------------------------- C21 -------------------------------- *)
\* C21: the zoom factor is within [0.1, 20.0] in every reachable state
C21_ZoomWithinLimits == zoomLevel >= MinZoom /\ zoomLevel <= MaxZoom

\* the zoom is at its lower limit, where one more step out would leave the
\* interval
C21_Witness == zoomLevel = MinZoom /\ ZoomOutWithoutFloor(zoomLevel) < MinZoom

(* --------------------------------- C22 -------------------------------- *)
\* C22 (as claimed): an entry of the prefetch window is a complete pair from
\* the step that publishes it, no step changes the entry of an index that
\* has one, and an entry with a fitted image has a decoded image
C22_EntryNeverModified ==
    [][/\ \A i \in DOMAIN preloadCache \cap DOMAIN preloadCache' :
             preloadCache'[i] = preloadCache[i]
       /\ \A i \in DOMAIN preloadCache' :
             /\ preloadCache'[i].img \in {"ok", "none"}
             /\ preloadCache'[i].fitted # NoFit => preloadCache'[i].img = "ok"]_vars

(* --------------------------------- C23 -------------------------------- *)
\* C23: each debounce channel (deferred high-quality render, resize, grid
\* scroll) has at most one delayed task pending in every reachable state
C23_OnePendingPerChannel ==
    /\ hqTimer.n <= 1
    /\ resizeTimer.n <= 1
    /\ scrollTimer.n <= 1

\* a task is pending on each of the three channels at once, on the first two
\* after a second trigger: the window has had two sizes and the resize task
\* has not run since, the zoom is two steps from the level a load sets
C23_Witness ==
    /\ hqTimer.n = 1
    /\ resizeTimer.n = 1
    /\ scrollTimer.n = 1
    /\ canvas \in CanvasSizes
    /\ display.kind = "fast"
    /\ zoomLevel = ZoomOut(ZoomOut(100))

(* --------------------------------- C24 -------------------------------- *)
\* the callbacks handled in this step, and the cells whose placeholder is
\* replaced by a thumbnail in this step
Handled == {c \in callbacks : c \notin callbacks'}
Replaced == {i \in DOMAIN canvasItems \cap DOMAIN canvasItems' :
                canvasItems[i] = "text" /\ canvasItems'[i] = "image"}

\* C24: a placeholder is replaced only by the completion of its own cell,
\* handled while the cell is among the drawn cells; the completion of a cell
\* that is not drawn leaves the drawing state (canvas items, photo handles,
\* drawn rows) as it is; and a cell that a step draws while its thumbnail is
\* in the cache is drawn with the thumbnail
C24_CompletionDrawsOnlyDrawnCell ==
    [][/\ \A i \in Replaced : \E c \in Handled : c.idx = i
       /\ \A c \in Handled :
             c.idx \notin DOMAIN canvasItems =>
                UNCHANGED <<canvasItems, thumbPhotos, drawnRows, lastVisible>>
       /\ \A i \in DOMAIN canvasItems' \ DOMAIN canvasItems :
             i \in DOMAIN thumbCache =>
                canvasItems'[i] = "image" /\ i \in thumbPhotos']_vars

\* the completion of a cell of the open grid is about to be handled, its
\* thumbnail is in the cache, and its row has scrolled away
C24_Witness ==
    /\ gridOpen
    /\ mainPc = "idle"
    /\ \E c \in callbacks :
          /\ c.gen = G
          /\ ~stopLoading[G]
          /\ c.idx \in DOMAIN thumbCache
          /\ c.idx \notin DOMAIN canvasItems
          /\ drawnRows # {}

(* --------------------------------- C25 -------------------------------- *)
\* a step of a background thread: a _preload_next thread that has started
\* moves on or ends, or a worker takes a thumbnail job from the queue, moves
\* on with it or ends it
ThreadMoves == \E t \in 1..MaxThreads :
                  threads[t].pc # "idle" /\ threads'[t] # threads[t]
WorkerMoves == \E j \in jobs :
                  \/ j.pc # "queued" /\ j \notin jobs'
                  \/ j.pc = "queued" /\ [j EXCEPT !.pc = "running"] \in jobs'

\* C25: a step of a prefetch thread or of a thumbnail worker leaves the
\* view state as it is: the current index, the displayed image, zoom, phone
\* mode, timers, and the grid's drawn rows, canvas items, photo handles and
\* visible range; it changes at most the prefetch window, the thumbnail
\* cache and the pending set (and queues the callback of the main loop)
C25_BackgroundLeavesView ==
    [][ThreadMoves \/ WorkerMoves =>
          UNCHANGED <<fileVars, saveVars, lockVars, uiVars, preloadCanvasSize, mainPc, gridViewVars,
                      stopLoading, executor, nextJob>>]_vars

\* a worker has stored a thumbnail while its cell shows the placeholder, and
\* a prefetch thread has published an entry and is on its next index, while
\* the viewer shows an image
C25_Witness ==
    /\ gridOpen
    /\ currentPil = "ok"
    /\ \E j \in jobs :
          /\ j.pc = "posting"
          /\ j.idx \in DOMAIN canvasItems
          /\ canvasItems[j.idx] = "text"
    /\ \E t \in 1..MaxThreads :
          /\ threads[t].pc \in {"check", "decode"}
          /\ threads[t].k >= 2
          /\ (ThreadIdx(t) - 1) \in DOMAIN preloadCache

(* --------------------------------- C26 -------------------------------- *)
\* the positions at which a thread decodes a file or resamples an image, and
\* the positions inside the `with` blocks of each lock
WorkPcs == {"decode196", "resize203", "decode229", "render", "decode1033"}
Inside(l) == IF l = "preload" THEN {"in182", "in192", "in205", "in222", "in719"}
             ELSE {"in968", "in1013", "in1037"}

\* C26: no thread holds both cache locks; a thread that decodes or
\* resamples holds neither; and the holder of a lock is always inside a
\* block of that lock, from which it leaves without waiting for anything,
\* so that no thread waits for a lock for ever
C26_LocksHeldOneAtATime ==
    /\ \A p \in LockProcs : ~(lockOwner["preload"] = p /\ lockOwner["thumb"] = p)
    /\ \A p \in LockProcs :
          lockPc[p] \in WorkPcs => \A l \in Locks : lockOwner[l] # p
    /\ \A l \in Locks :
          lockOwner[l] # "free" => lockPc[lockOwner[l]] \in Inside(l)

\* both locks are held, by a prefetch thread and by a worker, the main loop
\* waits for the prefetch lock, and the other prefetch thread decodes
C26_Witness ==
    /\ lockOwner["preload"] = "preload1"
    /\ lockOwner["thumb"] = "worker1"
    /\ lockPc["main"] = "at222"
    /\ lockPc["preload2"] = "decode196"

(* --------------------------------- C27 -------------------------------- *)
\* C27: at most MAX_WORKERS (8) thumbnail jobs are in their decode at the
\* same time, whatever grids have been opened and closed
C27_AtMostEightDecoding ==
    Cardinality({j \in jobs : j.pc = "decoding"}) <= MAX_WORKERS

(* --------------------------------- C28 -------------------------------- *)
\* a pan event that is not ignored: the pan offset moves
PanStep == pan'.off # pan.off /\ pan'.drag # pan.drag

\* C28: outside phone mode a pan event moves the pan offset and the drawn
\* image by the same amount and changes nothing else: what the canvas shows
\* is not rendered again, no high-quality render is scheduled, and the zoom
\* level, the index, the prefetch window and the thumbnail cache are as
\* before
C28_PanOnlyMoves ==
    [][(PanStep /\ ~phoneMode) =>
          /\ pan'.item[1] - pan.item[1] = pan'.off[1] - pan.off[1]
          /\ pan'.item[2] - pan.item[2] = pan'.off[2] - pan.off[2]
          /\ UNCHANGED <<display, imageItem, hqTimer, resizeTimer, zoomLevel, index,
                         currentPil, prerenderedFitted, phoneMode, canvas,
                         preloadCache, thumbCache, threads, mainPc>>]_vars

\* the image has been dragged outside phone mode while a high-quality render
\* is pending and the prefetch window holds an entry: the fast rendering is
\* still up, moved with the pan
C28_Witness ==
    /\ ~phoneMode
    /\ pan.off = <<30, 0 - 20>>
    /\ pan.item = pan.off
    /\ pan.drag = <<130, 80>>
    /\ display.kind = "fast"
    /\ hqTimer.n = 1
    /\ zoomLevel # 100
    /\ preloadCache # EmptyCache

(* --------------------------------- C29 -------------------------------- *)
\* C29: the prefetch window never holds more than PreloadCount + 1 entries
C29_WindowWithinBound ==
    Cardinality(DOMAIN preloadCache) <= PreloadCount + 1

(* --------------------------------- C30 -------------------------------- *)
\* C30: while phone mode is on and an image is loaded, the canvas shows the
\* phone mockup whenever the main loop is idle, that is after every render,
\* the deferred high-quality render included
C30_PhoneModeShowsMockup ==
    (phoneMode /\ currentPil = "ok" /\ mainPc = "idle") => display.kind = "phone"

(* --------------------------------- C31 -------------------------------- *)
\* C31: the index is always that of a file of the folder; and a step of the
\* main loop that leaves the index where it is, as next does at the last
\* file and previous at the first, leaves the loaded image, what the canvas
\* shows and the prefetch window as they are
C31_IndexInRange ==
    /\ [](index >= 0 /\ index < nImages)
    /\ [][(index' = index /\ mainPc = "idle" /\ gridOpen' = gridOpen /\ threads' = threads)
            => UNCHANGED <<currentPil, display, imageItem, zoomLevel, preloadCache>>]_vars

\* the viewer is at the last file after a grid has been used, the image is
\* shown and a thread slot is free: only the test of on_next stops a step
\* forward
C31_Witness ==
    /\ index = nImages - 1
    /\ gridGen > 0
    /\ ~gridOpen
    /\ mainPc = "idle"
    /\ currentPil = "ok"
    /\ FreeSlots # {}

(* -------------------------------- C32 --------------------------------- *)
\* C32: while a grid stays open, every index added to its pending set is
\* removed from it in the end, whether its decode succeeds or fails: a state
\* in which index i is pending in the open grid is followed by one in which
\* it is not pending, or the grid has been closed
C32_PendingIsRemoved ==
    \A i \in 0..(GridImages - 1) :
        (gridOpen /\ i \in pendingIndices[G])
            ~> (~gridOpen \/ i \notin pendingIndices[G])

\* the decode of an index failed and took the index out of the pending set,
\* the index was submitted a second time, and is no longer pending, in a grid
\* that has been open all the time
C32_Witness ==
    /\ gridOpen /\ gridGen = 1
    /\ bad # {}
    /\ nextJob >= 2
    /\ pendingIndices[G] = {}
    /\ jobs = {}
(* -------------------------------- C33 --------------------------------- *)
\* C33: the save counter equals the number of indices in the saved set in
\* every state; only a save of an index that is not in the saved set copies
\* a file or changes the counter or the set, and a step that ends the
\* overwrite dialog with "cancel" copies nothing and changes neither
C33_CounterIsSetSize ==
    /\ [](saveCount = Cardinality(savedSet))
    /\ [][(copies' # copies \/ destFiles' # destFiles \/ saveCount' # saveCount
              \/ savedSet' # savedSet) => index \notin savedSet]_vars
    /\ [][(mainPc = "dialog" /\ mainPc' = "idle" /\ dialogResult' = "cancel")
              => UNCHANGED <<copies, destFiles, saveCount, savedSet>>]_vars

\* two images are saved, one of them under a new name after the dialog, the
\* dialog of the third has been cancelled, and the first is shown again
C33_Witness ==
    /\ saveCount = 2
    /\ <<0, 2>> \in destFiles
    /\ dialogResult = "cancel"
    /\ mainPc = "idle"
    /\ index = 0
====
